---- MODULE Spec2Model ----
(***************************************************************************)
(* Full node of Drincann/blockchain: chain store, UTXO set, mempool, miner *)
(* handle and the handlers that change them (src/infra/node/node.mts).     *)
(*                                                                         *)
(* Abstractions of the data model:                                         *)
(*  - SHA-256 is collision free, so a hash is modelled by the content it   *)
(*    is taken of: Hash(b) is the block record, TxId(tx) is the unsigned   *)
(*    transaction record.                                                  *)
(*  - The field nonce of a block stands for the nonce by its effect on the *)
(*    hash: it is the number of leading zero bits of the block hash.       *)
(*  - A signature is modelled by the key that produced it over the txid of *)
(*    the transaction that carries it.                                     *)
(*  - Timestamps are milliseconds relative to the genesis timestamp and    *)
(*    amounts are scaled (COINBASE_REWARD), because TLC integers have 32   *)
(*    bits.                                                                *)
(***************************************************************************)
EXTENDS Integers, Sequences, FiniteSets, TLC

\* ---------------------------------------------------------------- bounds
\* Highest block height a peer offers or the node mines.
MaxHeight == 2
\* Date.now(), in milliseconds after the genesis timestamp.
Now == 5000
\* the pending transactions the pool is let grow to
MaxPool == 2

\* ------------------------------------------------------------- constants
\* The source value is 5_000_000_000; scaled by 5 * 10^6.
COINBASE_REWARD == 1000
REWARD_HALVING_EVERY_BLOCKS == 210000
BLOCK_GENERATION_TARGET_IN_MILLS == 10000
DIFFICULTY_ADJUSTMENT_EVERY_BLOCKS == 10
MEDIAN_TIME_PAST_WINDOW == 11
MAX_FUTURE_DRIFT_IN_MILLS == 1000 * 60 * 2
MIN_TX_FEES_EVERY_BYTE == 1
maxDataBytes == 10240

\* The node's account ("a") and the key of another party ("b").
Keys == {"a", "b"}
account == "a"

\* ------------------------------------------------------------ data model
NoBlock == [none |-> TRUE]
ZeroHash == [zero |-> TRUE]
ZeroTxId == [zero |-> TRUE]

TxIn(txid, index, sig) == [txid |-> txid, index |-> index, sig |-> sig]
TxOut(amount, publicKey) == [amount |-> amount, publicKey |-> publicKey]

\* Transaction.id: sha256 of the serialization without the signatures.
TxId(tx) ==
  [ins  |-> [i \in 1..Len(tx.inputs) |->
               [txid |-> tx.inputs[i].txid, index |-> tx.inputs[i].index]],
   outs |-> tx.outputs]

bytesLength(tx) == 8 + Len(tx.inputs) * 108 + Len(tx.outputs) * 73

RECURSIVE SumAmounts(_)
SumAmounts(outs) ==
  IF outs = <<>> THEN 0 ELSE Head(outs).amount + SumAmounts(Tail(outs))

outputValue(tx) == SumAmounts(tx.outputs)

buildCoinbaseTx(toPubKey, reward, blockHeight) ==
  [inputs  |-> <<TxIn(ZeroTxId, blockHeight, "data")>>,
   outputs |-> <<TxOut(reward, toPubKey)>>]

\* Block.hash(): sha256 of the serialized block.
Hash(b) == b

GENESIS_BLOCK ==
  [height |-> 0, ts |-> 0, prev |-> ZeroHash, difficulty |-> 1, nonce |-> 1,
   txs |-> <<buildCoinbaseTx("genesis", COINBASE_REWARD, 0)>>]

\* Block.coinbase / Block.transactions: the first transaction and the rest.
\* A block without transaction bytes has no coinbase (undefined in the code).
HasCoinbase(b) == b.txs # <<>>
coinbase(b) == Head(b.txs)
transactions(b) == IF b.txs = <<>> THEN <<>> ELSE Tail(b.txs)

RECURSIVE TxsLength(_)
TxsLength(txs) ==
  IF txs = <<>> THEN 0 ELSE bytesLength(Head(txs)) + TxsLength(Tail(txs))

isProofValid(b) == b.nonce >= b.difficulty

\* UTxOut.fromTransaction: one entry per output, index from 0.
fromTransaction(tx) ==
  [i \in 1..Len(tx.outputs) |->
     [txid |-> TxId(tx), index |-> i - 1, output |-> tx.outputs[i]]]

\* ---------------------------------------------------------------- state
VARIABLES
  blocks,         \* Node.blocks: the stored blocks (keyed by hash)
  next,           \* Block.next of every stored block
  tip,            \* Node.tip
  uTxOuts,        \* Node.uTxOuts, in insertion order
  pool,           \* TransactionPool.txs, in insertion order
  pendingUTxOuts, \* TransactionPool.pendingUTxOuts
  mining,         \* Node.mining: idle (null, or a miner that has finished),
                  \* searching with its candidate block, or stopping
  last            \* what the last handler did (history)

vars == <<blocks, next, tip, uTxOuts, pool, pendingUTxOuts, mining, last>>
nodeState == <<blocks, next, tip, uTxOuts, pool, pendingUTxOuts>>

\* One SyncronizedQueue (src/lib/queue.mts), the tasks named by the number
\* of the schedule() call that brought them.
VARIABLES
  queue,          \* SyncronizedQueue.queue: the tasks not yet shifted
  tasks,          \* per task: what _() does (kind) and how far it is (st)
  promises,       \* per task: the promise schedule() returned
  started         \* the tasks in the order in which _() was called (history)

qvars == <<queue, tasks, promises, started>>

\* One BlockMiner (miner.mts).
VARIABLES
  stop,           \* BlockMiner.stop
  finished,       \* BlockMiner.finished
  promise,        \* BlockMiner.promise: pending, or resolved with block / null
  run,            \* where run() is: waiting for its timer, in the loop, ended
  proof,          \* this.block.isProofValid() for the nonce set last
  delivered,      \* what the callbacks registered by then() were called with
  minerLog        \* nonces tested since cancel, cancel before the end (history)

mvars == <<stop, finished, promise, run, proof, delivered, minerLog>>

\* Two nodes and the connection between them.
VARIABLES
  nodes,          \* per node: blocks, next, tip, uTxOuts, pool, pendingUTxOuts, mining
  wire,           \* per direction: the messages sent and not yet received
  ingest,         \* per node: the blockinv tasks of Node.queue, the first one
                  \* running, and where that one is suspended
  net             \* connection state and history of the two-node run

netvars == <<nodes, wire, ingest, net>>

\* One Server (src/lib/p2p/server.mts) with the sockets it has created or
\* accepted, numbered in the order of their creation.
VARIABLES
  socks,          \* per socket: the Peer fields address and listenAddress, the
                  \* readyState of its WebSocket, what is at the far end, who
                  \* made it, its pending getpeers request, the frames on
                  \* their way to it
  peers,          \* Server.peers: the sockets in the list
  knownAddresses, \* Server.knownAddresses, in insertion order
  stopping,       \* Server.stopping
  refresh,        \* Server.refreshInterval (handle), whether its timer is
                  \* armed, and the peers a running refresh round has yet
                  \* to ask
  srvLog          \* what the last step of the server was (history)

svars == <<socks, peers, knownAddresses, stopping, refresh, srvLog>>

\* One Peer (src/lib/p2p/peer.mts) on an open socket, with the requests made
\* on it.
VARIABLES
  syncId,          \* Peer.syncId
  pendingRequests, \* pendingRequests of setupSocket: per id the request whose
                   \* resolve is the callback
  requests         \* per request: its id, its promise, whether its timer of
                   \* 3000 ms is still to fire; history: the data of the
                   \* first response with its id that came before the timer
                   \* fired, and whether another one came after that

rvars == <<syncId, pendingRequests, requests>>

\* A chain of blocks, by height, that a node has stored, each with its
\* timestamp and difficulty, and the verdict on the last block offered.
VARIABLES
  chain,           \* the blocks from genesis to the tip
  verdict          \* the last block offered and whether it was accepted

dvars == <<chain, verdict>>

\* The codecs of Block (src/block.mts) and Transaction
\* (src/lib/transaction/transaction.mts) at work on one value.
VARIABLES
  codec            \* the value serialized last, its bytes, and what
                   \* deserialize made of the bytes

cvars == <<codec>>

\* the variables added to the node, the queue, the miner and the two nodes
xvars == <<svars, rvars, dvars, cvars>>

\* what a step of the single node leaves alone
aside == <<qvars, mvars, netvars, xvars>>

\* ------------------------------------------------------------- UTxOutSet
\* UTxOutSet.id
UId(x) == [txid |-> x.txid, index |-> x.index]

UHas(U, input) == \E i \in 1..Len(U) : UId(U[i]) = UId(input)

\* UTxOutSet.get (only used where UHas holds)
UGet(U, input) == U[CHOOSE i \in 1..Len(U) : UId(U[i]) = UId(input)]

\* UTxOutSet.add: an existing key keeps its place, a new key goes last.
UAdd(U, u) ==
  IF UHas(U, u)
  THEN [i \in 1..Len(U) |-> IF UId(U[i]) = UId(u) THEN u ELSE U[i]]
  ELSE Append(U, u)

\* UTxOutSet.remove: no effect on a missing key.
URemove(U, input) == SelectSeq(U, LAMBDA u : UId(u) # UId(input))

RECURSIVE UAddAll(_, _)
UAddAll(U, us) == IF us = <<>> THEN U ELSE UAddAll(UAdd(U, Head(us)), Tail(us))

RECURSIVE URemoveAll(_, _)
URemoveAll(U, ins) ==
  IF ins = <<>> THEN U ELSE URemoveAll(URemove(U, Head(ins)), Tail(ins))

\* sum of the referenced amounts, one term per input
RECURSIVE InAmount(_, _)
InAmount(U, ins) ==
  IF ins = <<>> THEN 0
  ELSE UGet(U, Head(ins)).output.amount + InAmount(U, Tail(ins))

\* ------------------------------------------------------- TransactionPool
PoolHas(txid) == \E i \in 1..Len(pool) : TxId(pool[i].tx) = txid

InputIds(tx) == {UId(tx.inputs[i]) : i \in 1..Len(tx.inputs)}

\* TransactionPool.add on the pair <<txs, pendingUTxOuts>>
PoolAdd(P, pending) ==
  LET known == \E i \in 1..Len(P[1]) : TxId(P[1][i].tx) = TxId(pending.tx)
  IN <<IF known
       THEN [i \in 1..Len(P[1]) |->
               IF TxId(P[1][i].tx) = TxId(pending.tx) THEN pending ELSE P[1][i]]
       ELSE Append(P[1], pending),
       P[2] \cup InputIds(pending.tx)>>

\* TransactionPool.remove on the pair <<txs, pendingUTxOuts>>
PoolRemove(P, txid) ==
  LET hit == {i \in 1..Len(P[1]) : TxId(P[1][i].tx) = txid}
  IN IF hit = {} THEN P
     ELSE LET tx == P[1][CHOOSE i \in hit : TRUE].tx
          IN <<SelectSeq(P[1], LAMBDA p : TxId(p.tx) # txid),
               P[2] \ InputIds(tx)>>

\* ------------------------------------------------------------ validation
\* blocks[hex(h)] ?? this.blocks.get(hex(h)): the orphans are keyed by the
\* hash under which the peer delivered them (Keys of the segment).
SegKey(seg, i) == IF i < Len(seg) THEN seg[i + 1].prev ELSE Hash(seg[i])

Lookup(seg, h) ==
  IF \E i \in 1..Len(seg) : SegKey(seg, i) = h
  THEN seg[CHOOSE i \in 1..Len(seg) : SegKey(seg, i) = h]
  ELSE IF \E b \in blocks : Hash(b) = h
       THEN CHOOSE b \in blocks : Hash(b) = h
       ELSE NoBlock

RECURSIVE lastOf(_, _, _)
lastOf(seg, tail, n) ==
  IF n = 0 THEN tail
  ELSE LET p == Lookup(seg, tail.prev)
       IN IF p = NoBlock THEN tail ELSE lastOf(seg, p, n - 1)

mtp(seg, tail) == lastOf(seg, tail, MEDIAN_TIME_PAST_WINDOW \div 2).ts

Min(a, b) == IF a < b THEN a ELSE b
Max(a, b) == IF a > b THEN a ELSE b

getExpectedDifficulty(prev, lastDuration) ==
  LET expected == BLOCK_GENERATION_TARGET_IN_MILLS * DIFFICULTY_ADJUSTMENT_EVERY_BLOCKS
  IN IF prev.height % DIFFICULTY_ADJUSTMENT_EVERY_BLOCKS # 0 THEN prev.difficulty
     ELSE IF 2 * lastDuration < expected THEN Min(prev.difficulty + 1, 256)
     ELSE IF lastDuration > expected * 2 THEN Max(prev.difficulty - 1, 1)
     ELSE prev.difficulty

isValidNext(this, nxt, difficulty, mtpv) ==
  /\ nxt.height = this.height + 1
  /\ ~(nxt.ts < mtpv)
  /\ nxt.difficulty = difficulty
  /\ isProofValid(this)
  /\ ~(TxsLength(nxt.txs) > maxDataBytes)
  /\ nxt.prev = Hash(this)

getCoinbaseRewardAtHeight(height) ==
  COINBASE_REWARD \div (2 ^ (height \div REWARD_HALVING_EVERY_BLOCKS))

Signed(input) == input.sig # "unsigned"

\* Account.verifyTxIn: the signature is by publicKey over the txid.
verifyTxIn(tx, i, publicKey) == Signed(tx.inputs[i]) /\ tx.inputs[i].sig = publicKey

AllInputsFound(U, tx) == \A i \in 1..Len(tx.inputs) : UHas(U, tx.inputs[i])

AllInputsVerify(U, tx) ==
  \A i \in 1..Len(tx.inputs) :
     /\ Signed(tx.inputs[i])
     /\ verifyTxIn(tx, i, UGet(U, tx.inputs[i]).output.publicKey)

\* one round of the transaction loop: the four checks on tx against U
TxAccepted(U, tx) ==
  /\ AllInputsFound(U, tx)
  /\ ~(InAmount(U, tx.inputs) < outputValue(tx))
  /\ AllInputsVerify(U, tx)
  /\ ~(InAmount(U, tx.inputs) - outputValue(tx) < bytesLength(tx) * MIN_TX_FEES_EVERY_BYTE)

\* the update of the working copy after a transaction passed
ApplyTx(U, tx) == UAddAll(URemoveAll(U, tx.inputs), fromTransaction(tx))

\* the transaction loop of one block: [ok, uTxOuts, totalFee]
RECURSIVE ValidateTxs(_, _, _)
ValidateTxs(txs, U, totalFee) ==
  IF txs = <<>> THEN [ok |-> TRUE, uTxOuts |-> U, totalFee |-> totalFee]
  ELSE IF ~TxAccepted(U, Head(txs))
       THEN [ok |-> FALSE, uTxOuts |-> U, totalFee |-> totalFee]
       ELSE ValidateTxs(Tail(txs), ApplyTx(U, Head(txs)),
                        totalFee + InAmount(U, Head(txs).inputs) - outputValue(Head(txs)))

\* the coinbase check without the bound on the amount
CoinbaseAcceptedAnyAmount(b, totalFee) ==
  /\ HasCoinbase(b)
  /\ Len(coinbase(b).inputs) = 1
  /\ coinbase(b).inputs[1].index = b.height
  /\ Len(coinbase(b).outputs) = 1

\* the coinbase check of one block
CoinbaseAccepted(b, totalFee) ==
  /\ HasCoinbase(b)
  /\ Len(coinbase(b).inputs) = 1
  /\ coinbase(b).inputs[1].index = b.height
  /\ Len(coinbase(b).outputs) = 1
  /\ ~(coinbase(b).outputs[1].amount > getCoinbaseRewardAtHeight(b.height) + totalFee)

\* the block loop from seg[i] on, prev being the block before it
RECURSIVE ValidateBlocks(_, _, _, _)
ValidateBlocks(seg, i, prev, U) ==
  IF i > Len(seg) THEN [ok |-> TRUE, uTxOuts |-> U]
  ELSE LET block == seg[i]
           duration == prev.ts - lastOf(seg, block, 10).ts
           expectedDifficulty == getExpectedDifficulty(prev, duration)
       IN IF ~isValidNext(prev, block, expectedDifficulty, mtp(seg, prev))
          THEN [ok |-> FALSE, uTxOuts |-> U]
          ELSE LET r == ValidateTxs(transactions(block), U, 0)
               IN IF ~r.ok \/ ~CoinbaseAccepted(block, r.totalFee)
                  THEN [ok |-> FALSE, uTxOuts |-> r.uTxOuts]
                  ELSE ValidateBlocks(seg, i + 1, block,
                                      UAddAll(r.uTxOuts, fromTransaction(coinbase(block))))

\* validateNewBlocksAndUpdateUTxOuts up to the commit: the checks run on a
\* copy of uTxOutsState and give [ok, uTxOuts]
validateNewBlocks(seg, uTxOutsState) ==
  IF seg[Len(seg)].ts >= Now + MAX_FUTURE_DRIFT_IN_MILLS
  THEN [ok |-> FALSE, uTxOuts |-> uTxOutsState]
  ELSE IF Lookup(<<>>, seg[1].prev) = NoBlock
       THEN [ok |-> FALSE, uTxOuts |-> uTxOutsState]
       ELSE ValidateBlocks(seg, 1, Lookup(<<>>, seg[1].prev), uTxOutsState)

\* the commit without the pool reconciliation
ReconcilePoolSkipped(all, P, U) == P

\* the pool reconciliation at the end of validateNewBlocksAndUpdateUTxOuts
RECURSIVE ReconcilePool(_, _, _)
ReconcilePool(all, P, U) ==
  IF all = <<>> THEN P
  ELSE ReconcilePool(Tail(all),
                     IF AllInputsFound(U, Head(all).tx) THEN P
                     ELSE PoolRemove(P, TxId(Head(all).tx)),
                     U)

\* validateDifficulty
Pow2(n) == 2 ^ n

RECURSIVE SegWork(_)
SegWork(seg) == IF seg = <<>> THEN 0 ELSE Pow2(Head(seg).difficulty) + SegWork(Tail(seg))

RECURSIVE LocalWork(_)
LocalWork(b) == IF b = NoBlock THEN 0 ELSE Pow2(b.difficulty) + LocalWork(next[b])

validateDifficulty(localBlockStart, seg) ==
  localBlockStart = NoBlock \/ SegWork(seg) >= LocalWork(localBlockStart)

\* validateAndRecalculateUTxOuts: the blocks its loop visits. It starts at
\* Block.deserialize(GENESIS_BLOCK), a new object whose next is null
\* (block.mts:54), so the walk ends after that block.
RecalculatedBlocks == <<GENESIS_BLOCK>>

\* its loop body: the non-coinbase transactions of one block
RECURSIVE RecalcTxs(_, _)
RecalcTxs(txs, U) ==
  IF txs = <<>> THEN [ok |-> TRUE, uTxOuts |-> U]
  ELSE IF ~AllInputsFound(U, Head(txs)) THEN [ok |-> FALSE, uTxOuts |-> U]
       ELSE RecalcTxs(Tail(txs), ApplyTx(U, Head(txs)))

RECURSIVE RecalcBlocks(_, _)
RecalcBlocks(bs, U) ==
  IF bs = <<>> THEN [ok |-> TRUE, uTxOuts |-> U]
  ELSE LET r == RecalcTxs(transactions(Head(bs)), U)
       IN IF ~r.ok THEN r ELSE RecalcBlocks(Tail(bs), r.uTxOuts)

recalculateUTxOuts == RecalcBlocks(RecalculatedBlocks, <<>>)

\* ------------------------------------------- the chain behind a stored block
RECURSIVE SeqToSet(_)
SeqToSet(q) == IF q = <<>> THEN {} ELSE {Head(q)} \cup SeqToSet(Tail(q))

\* the stored blocks from genesis to b, following prev
RECURSIVE ChainTo(_)
ChainTo(b) ==
  IF b = GENESIS_BLOCK \/ Lookup(<<>>, b.prev) = NoBlock THEN <<b>>
  ELSE Append(ChainTo(Lookup(<<>>, b.prev)), b)

\* the transactions of the blocks bs in the order in which a block is
\* applied: its transfers, then its coinbase
RECURSIVE TxsOf(_)
TxsOf(bs) ==
  IF bs = <<>> THEN <<>>
  ELSE transactions(Head(bs))
       \o (IF HasCoinbase(Head(bs)) THEN <<coinbase(Head(bs))>> ELSE <<>>)
       \o TxsOf(Tail(bs))

\* replay of txs on the set U: remove the spent outputs, add the created ones
RECURSIVE Replay(_, _)
Replay(txs, U) ==
  IF txs = <<>> THEN U
  ELSE Replay(Tail(txs),
              {u \in U : UId(u) \notin InputIds(Head(txs))}
                \cup SeqToSet(fromTransaction(Head(txs))))

\* The unspent outputs of the chain from genesis to b. The output of the
\* genesis coinbase is left out: the node starts with an empty set.
Unspent(b) == Replay(TxsOf(Tail(ChainTo(b))), {})

\* ------------------------------------------------- what a peer can deliver
OtherKey(k) == IF k = "b" THEN "a" ELSE "b"

\* Transactions over the output u, each with the fee it leaves (one term per
\* input): a well-formed payment, a payment naming u in two inputs, one a
\* unit short of the minimum fee, one paying out more than it takes in, one
\* without fee, one signed by the wrong key, and one naming an output that
\* was never created.
TxCandidates(u, to) ==
  LET amt   == u.output.amount
      owner == u.output.publicKey
      in1(sig) == <<TxIn(u.txid, u.index, sig)>>
      one(a, sig) == [tx |-> [inputs |-> in1(sig), outputs |-> <<TxOut(a, to)>>],
                      fee |-> amt - a]
      two(a) == [tx |-> [inputs |-> in1(owner) \o in1(owner),
                         outputs |-> <<TxOut(a, to)>>],
                 fee |-> 2 * amt - a]
      minOne == bytesLength(one(0, owner).tx)
      minTwo == bytesLength(two(0).tx)
  IN (IF amt >= minOne THEN {one(amt - minOne, owner), one(amt - minOne + 1, owner),
                             one(amt - minOne, OtherKey(owner))}
      ELSE {})
     \cup (IF 2 * amt >= minTwo THEN {two(2 * amt - minTwo)} ELSE {})
     \cup {one(amt, owner), one(amt + 1, owner)}
     \cup {[tx |-> [inputs |-> <<TxIn(u.txid, u.index + 5, owner)>>,
                    outputs |-> <<TxOut(0, to)>>],
            fee |-> 0]}

\* the well-formed payment of u to the key to
Payment(u, to) ==
  LET tx0 == [inputs |-> <<TxIn(u.txid, u.index, u.output.publicKey)>>,
              outputs |-> <<TxOut(0, to)>>]
  IN [tx |-> [tx0 EXCEPT !.outputs = <<TxOut(u.output.amount - bytesLength(tx0), to)>>],
      fee |-> bytesLength(tx0)]

Payable(S) == {u \in S : u.output.amount >= bytesLength(Payment(u, "b").tx)}

\* the difficulty a peer gives the block after P
PeerDifficulty(P) == IF P.height = 0 THEN P.difficulty + 1 ELSE P.difficulty

RECURSIVE SumFees(_)
SumFees(cs) == IF cs = <<>> THEN 0 ELSE Head(cs).fee + SumFees(Tail(cs))

\* the block after P with the candidates cs, paying the coinbase to k
BlockOn(P, k, cs) ==
  [height |-> P.height + 1, ts |-> Now, prev |-> Hash(P),
   difficulty |-> PeerDifficulty(P), nonce |-> PeerDifficulty(P),
   txs |-> <<buildCoinbaseTx(k, getCoinbaseRewardAtHeight(P.height + 1) + SumFees(cs),
                             P.height + 1)>>
           \o [i \in 1..Len(cs) |-> cs[i].tx]]

\* BlockOn(P, "b", <<>>) with one field changed
Malformed(P) ==
  LET b  == BlockOn(P, "b", <<>>)
      cb == coinbase(b)
  IN {[b EXCEPT !.height = P.height + 2],
      [b EXCEPT !.ts = 0 - 1],
      [b EXCEPT !.ts = Now + MAX_FUTURE_DRIFT_IN_MILLS + 1],
      [b EXCEPT !.difficulty = PeerDifficulty(P) - 1, !.nonce = PeerDifficulty(P) - 1],
      [b EXCEPT !.difficulty = PeerDifficulty(P) + 1, !.nonce = PeerDifficulty(P) + 1],
      [b EXCEPT !.nonce = PeerDifficulty(P) - 1],
      [b EXCEPT !.txs = <<>>],
      [b EXCEPT !.txs = <<[cb EXCEPT !.inputs = <<TxIn(ZeroTxId, P.height, "data")>>]>>],
      [b EXCEPT !.txs = <<[cb EXCEPT !.outputs = cb.outputs \o cb.outputs]>>],
      [b EXCEPT !.txs = <<[cb EXCEPT !.inputs = cb.inputs \o cb.inputs]>>],
      [b EXCEPT !.txs = <<[cb EXCEPT !.outputs = <<TxOut(cb.outputs[1].amount + 1, "b")>>]>>]}

\* The blocks a peer may deliver as the successor of the stored block P: on
\* the tip every kind of transaction over the outputs unspent there, on an
\* earlier block the payments of the outputs unspent at that block.
BlockCandidates(P) ==
  {BlockOn(P, "b", <<>>)}
  \cup Malformed(P)
  \cup (IF P = tip
        THEN {BlockOn(P, "b", <<c>>) : c \in UNION {TxCandidates(u, "b") : u \in Unspent(P)}}
             \cup {BlockOn(P, "b", <<Payment(u, "b"), Payment(u, "a")>>) :
                     u \in Payable(Unspent(P))}
        ELSE {BlockOn(P, "b", <<Payment(u, "b")>>) : u \in Payable(Unspent(P))})

\* segments of two blocks: the first block is fetched by gap-fill, with a
\* valid or an invalid proof or a timestamp beyond the future drift. The last
\* element of the set is a child delivered with a parent of another hash.
TwoBlockCandidates(P) ==
  LET firsts == {BlockOn(P, "b", <<>>),
                 [BlockOn(P, "b", <<>>) EXCEPT !.nonce = PeerDifficulty(P) - 1],
                 [BlockOn(P, "b", <<>>) EXCEPT !.ts = Now + MAX_FUTURE_DRIFT_IN_MILLS + 1]}
                \cup {BlockOn(P, "b", <<Payment(u, "b")>>) : u \in Payable(Unspent(P))}
      seconds(f) == {BlockOn(f, "b", <<>>),
                     [BlockOn(f, "b", <<>>) EXCEPT !.nonce = PeerDifficulty(f) - 1],
                     BlockOn(f, "b", <<Payment(fromTransaction(coinbase(f))[1], "a")>>)}
  IN UNION {{<<f, g>> : g \in seconds(f)} : f \in firsts}
     \cup {<<BlockOn(P, "a", <<>>), BlockOn(BlockOn(P, "b", <<>>), "b", <<>>)>>}

\* --------------------------------- the validity rules as they are specified
\* fees of tx against the set U of unspent outputs, one term per input
SpecFees(U, tx) ==
  LET amt(i) == (CHOOSE u \in U : UId(u) = UId(tx.inputs[i])).output.amount
      sumIn[n \in 0..Len(tx.inputs)] == IF n = 0 THEN 0 ELSE sumIn[n - 1] + amt(n)
  IN sumIn[Len(tx.inputs)] - outputValue(tx)

\* every input names an unspent output, no two inputs name the same one, the
\* fees cover the size, every input is signed by the owner of its output
SpecTxValid(U, tx) ==
  LET ids == 1..Len(tx.inputs)
  IN /\ \A i \in ids : \E u \in U : UId(u) = UId(tx.inputs[i])
     /\ \A i \in ids : \A j \in ids : i # j => UId(tx.inputs[i]) # UId(tx.inputs[j])
     /\ SpecFees(U, tx) >= 8 + 108 * Len(tx.inputs) + 73 * Len(tx.outputs)
     /\ \A i \in ids : \E u \in U : /\ UId(u) = UId(tx.inputs[i])
                                    /\ tx.inputs[i].sig = u.output.publicKey

\* the transfers of a block in order: [ok, U, fees]
RECURSIVE SpecTxsValid(_, _, _)
SpecTxsValid(txs, U, fees) ==
  IF txs = <<>> THEN [ok |-> TRUE, U |-> U, fees |-> fees]
  ELSE IF ~SpecTxValid(U, Head(txs)) THEN [ok |-> FALSE, U |-> U, fees |-> fees]
       ELSE SpecTxsValid(Tail(txs), Replay(<<Head(txs)>>, U),
                         fees + SpecFees(U, Head(txs)))

\* one input naming the height, one output of at most subsidy plus fees
SpecCoinbaseValid(b, fees) ==
  /\ b.txs # <<>>
  /\ Len(b.txs[1].inputs) = 1
  /\ b.txs[1].inputs[1].index = b.height
  /\ Len(b.txs[1].outputs) = 1
  /\ b.txs[1].outputs[1].amount
       <= COINBASE_REWARD \div (2 ^ (b.height \div REWARD_HALVING_EVERY_BLOCKS)) + fees

\* the blocks seg[i..] after prev on the unspent outputs U
RECURSIVE SpecBlocksValid(_, _, _, _)
SpecBlocksValid(seg, i, prev, U) ==
  IF i > Len(seg) THEN TRUE
  ELSE LET b == seg[i]
           d == getExpectedDifficulty(prev, prev.ts - lastOf(seg, b, 10).ts)
           r == SpecTxsValid(transactions(b), U, 0)
       IN /\ b.height = prev.height + 1
          /\ b.prev = Hash(prev)
          /\ b.difficulty = d
          /\ b.nonce >= b.difficulty
          /\ b.ts >= mtp(seg, prev)
          /\ b.ts < Now + MAX_FUTURE_DRIFT_IN_MILLS
          /\ TxsLength(b.txs) <= maxDataBytes
          /\ r.ok
          /\ SpecCoinbaseValid(b, r.fees)
          /\ SpecBlocksValid(seg, i + 1, b, Replay(<<b.txs[1]>>, r.U))

\* the segment seg with the stored parent fork satisfies every rule
SpecValid(fork, seg) == SpecBlocksValid(seg, 1, fork, Unspent(fork))

\* sum of 2^difficulty over a set of blocks
RECURSIVE WorkOf(_)
WorkOf(bs) ==
  IF bs = {} THEN 0
  ELSE LET b == CHOOSE x \in bs : TRUE IN 2 ^ b.difficulty + WorkOf(bs \ {b})

\* the incoming work is at least the work of the stored blocks above fork
WorkEnough(fork, seg) ==
  WorkOf(SeqToSet(seg)) >= WorkOf({b \in blocks : b.height > fork.height})

\* ---------------------------------------------------------------- history
\* op: the handler that ran last; accepted: it changed the node. For a block
\* ingestion: reorg (the parent had a successor), rebuilt (the snapshot was
\* recomputed), fork and snapshot of the rebuild, and the verdicts WorkEnough
\* and SpecValid on the segment. For a gettx response: the number of
\* transactions delivered, the ids of those that satisfy the ingestion rule
\* and of those announced.
LastRec(op, accepted) ==
  [op |-> op, accepted |-> accepted, reorg |-> FALSE, rebuilt |-> FALSE,
   fork |-> NoBlock, snapshot |-> <<>>, workEnough |-> FALSE, specValid |-> FALSE,
   offered |-> 0, ruleOk |-> {}, announced |-> {}]

\* ------------------------------------- the other components as constructed
\* schedule() calls made on the queue
MaxTasks == 3
TaskIds == 1..MaxTasks

\* new SyncronizedQueue(): no task scheduled
QueueNew ==
  /\ queue = <<>>
  /\ tasks = [i \in TaskIds |-> [kind |-> "none", st |-> "none"]]
  /\ promises = [i \in TaskIds |-> [state |-> "pending", calls |-> 0]]
  /\ started = <<>>

\* new BlockMiner(block): run() has set its first timer
MinerNew ==
  /\ stop = FALSE
  /\ finished = FALSE
  /\ promise = "pending"
  /\ run = [at |-> "timer", i |-> 0]
  /\ proof = FALSE
  /\ delivered = "none"
  /\ minerLog = [sinceCancel |-> 0, early |-> FALSE, yielded |-> FALSE]

Nodes == {"A", "B"}
Other(n) == IF n = "A" THEN "B" ELSE "A"

\* new Node(): the fields of node.mts:28-36, the account being the key "a"
\* for node A and "b" for node B
NodeNew(n) ==
  [blocks |-> {GENESIS_BLOCK}, next |-> [b \in {GENESIS_BLOCK} |-> NoBlock],
   tip |-> GENESIS_BLOCK, uTxOuts |-> <<>>, pool |-> <<>>, pendingUTxOuts |-> {},
   mining |-> [st |-> "idle", block |-> NoBlock],
   account |-> IF n = "A" THEN "a" ELSE "b"]

\* Node.queue without a task
IngestIdle ==
  [queue |-> <<>>, at |-> "none", newBlock |-> NoBlock, orphans |-> <<>>, batch |-> 0]

\* the history of a two-node run before anything happened
NetLog0 ==
  [connected |-> FALSE, atConnect |-> [n \in Nodes |-> NodeNew(n)],
   minedAfter |-> 0, sent |-> FALSE, offered |-> [n \in Nodes |-> <<>>],
   gap |-> [rounds |-> 0, unknown |-> 0, of |-> NoBlock]]

\* two nodes constructed and started, not connected
NetNew ==
  /\ nodes = [n \in Nodes |-> NodeNew(n)]
  /\ wire = [n \in Nodes |-> <<>>]
  /\ ingest = [n \in Nodes |-> IngestIdle]
  /\ net = NetLog0

\* no connection of the server with itself is under way
NoSelfDial == [on |-> FALSE, known |-> <<>>, peers |-> <<>>]

\* new Server({port}): no peer, no known address, the refresh timer armed by
\* scheduleRefreshAddresses
ServerNew ==
  /\ socks = <<>>
  /\ peers = <<>>
  /\ knownAddresses = <<>>
  /\ stopping = FALSE
  /\ refresh = [handle |-> TRUE, armed |-> TRUE, round |-> <<>>]
  /\ srvLog = [op |-> "new", sock |-> 0, picked |-> {}, sent |-> {}, self |-> NoSelfDial]

\* new Peer(address, ws, waitResponse): no request made
PeerNew ==
  /\ syncId = 0
  /\ pendingRequests = <<>>
  /\ requests = <<>>

\* the chain of a new node is the genesis block
ChainNew ==
  /\ chain = <<[height |-> 0, ts |-> GENESIS_BLOCK.ts, difficulty |-> GENESIS_BLOCK.difficulty]>>
  /\ verdict = [offered |-> FALSE, mined |-> FALSE, accepted |-> FALSE, block |-> chain[1]]

\* nothing has been serialized
CodecNew == codec = [kind |-> "none", done |-> FALSE]

\* ------------------------------------------------------------------ Init
Init ==
  /\ QueueNew /\ MinerNew /\ NetNew /\ ServerNew /\ PeerNew /\ ChainNew /\ CodecNew
  /\ blocks = {GENESIS_BLOCK}
  /\ next = [b \in {GENESIS_BLOCK} |-> NoBlock]
  /\ tip = GENESIS_BLOCK
  /\ uTxOuts = <<>>
  /\ pool = <<>>
  /\ pendingUTxOuts = {}
  /\ mining = [st |-> "idle", block |-> NoBlock]
  /\ last = LastRec("init", FALSE)

\* ------------------------------------------- validate and commit a segment
\* the displaced branch is left in the store
SuffixKept(b) == {}

\* the blocks from b on along next
RECURSIVE Suffix(_)
Suffix(b) == IF b = NoBlock THEN {} ELSE {b} \cup Suffix(next[b])

\* the try block of onNewBlocks / onNewBlock for the segment seg whose first
\* block has the stored parent fork: [ok, uTxOuts, reorg, snapshot]
validateSegment(seg, fork) ==
  IF next[fork] = NoBlock
  THEN LET r == validateNewBlocks(seg, uTxOuts)
       IN [ok |-> r.ok, uTxOuts |-> r.uTxOuts, reorg |-> FALSE, rebuilt |-> FALSE,
           snapshot |-> <<>>]
  ELSE IF ~validateDifficulty(next[fork], seg)
       THEN [ok |-> FALSE, uTxOuts |-> uTxOuts, reorg |-> TRUE, rebuilt |-> FALSE,
             snapshot |-> <<>>]
       ELSE LET rc == recalculateUTxOuts
            IN IF ~rc.ok
               THEN [ok |-> FALSE, uTxOuts |-> rc.uTxOuts, reorg |-> TRUE,
                     rebuilt |-> FALSE, snapshot |-> <<>>]
               ELSE LET r == validateNewBlocks(seg, rc.uTxOuts)
                    IN [ok |-> r.ok, uTxOuts |-> r.uTxOuts, reorg |-> TRUE,
                        rebuilt |-> TRUE, snapshot |-> rc.uTxOuts]

\* the working copy committed where a check threw as well
committedUTxOutsOnThrow(r) == r.uTxOuts

\* "all valid, commit UTxOuts": the working copy replaces this.uTxOuts only
\* when no check threw
committedUTxOuts(r) == IF r.ok THEN r.uTxOuts ELSE uTxOuts

\* the miner is left running
cancelNot(m) == m

\* BlockMiner.cancel
cancel(m) == IF m.st = "searching" THEN [st |-> "stopping", block |-> NoBlock] ELSE m

\* the statements of onNewBlocks / onNewBlock after the try block
commitSegment(seg, fork) ==
  LET old == Suffix(next[fork])
      new == SeqToSet(seg)
      n   == Len(seg)
  IN /\ blocks' = (blocks \ old) \cup new
     /\ next' = [b \in (blocks \ old) \cup new |->
                   IF b = fork THEN seg[1]
                   ELSE IF \E i \in 1..n : seg[i] = b
                        THEN LET i == CHOOSE j \in 1..n : seg[j] = b
                             IN IF i < n THEN seg[i + 1] ELSE NoBlock
                        ELSE next[b]]
     /\ tip' = seg[n]

\* validation, then commit or no change; m is the miner handle as the
\* handler found it
acceptSegment(seg, fork, m, rec) ==
  LET r == validateSegment(seg, fork)
      P == ReconcilePool(pool, <<pool, pendingUTxOuts>>, r.uTxOuts)
  IN /\ uTxOuts' = committedUTxOuts(r)
     /\ IF r.ok
        THEN /\ pool' = P[1]
             /\ pendingUTxOuts' = P[2]
             /\ commitSegment(seg, fork)
             /\ mining' = cancel(m)
        ELSE /\ UNCHANGED <<pool, pendingUTxOuts, blocks, next, tip>>
             /\ mining' = m
     /\ last' = [rec EXCEPT !.accepted = r.ok, !.reorg = r.reorg,
                            !.rebuilt = r.rebuilt,
                            !.fork = IF r.rebuilt THEN fork ELSE NoBlock,
                            !.snapshot = r.snapshot,
                            !.workEnough = r.reorg /\ WorkEnough(fork, seg),
                            !.specValid = r.reorg /\ SpecValid(fork, seg)]

\* ------------------------------------------------------------ onNewBlocks
\* The handler returns before it has a segment: the summary is malformed or
\* its hash is stored, the block fetch fails, or a gap-fill response is
\* empty or lacks the parent asked for.
OnNewBlocksAbort ==
  /\ UNCHANGED aside
  /\ last' = LastRec("onNewBlocks", FALSE)
  /\ UNCHANGED <<blocks, next, tip, uTxOuts, pool, pendingUTxOuts, mining>>

\* The peer delivers the segment seg (the announced block last, the blocks
\* before it by gap-fill); the parent of seg[1] is stored, the parents named
\* by the later blocks are not (the gap-fill loop ran for them). The hash of
\* the summary is the peer's word: it is unknown to the store, seg's last
\* block need not be.
OnNewBlocksSegment(seg) ==
  LET fork == Lookup(<<>>, seg[1].prev)
  IN /\ UNCHANGED aside
     /\ fork # NoBlock
     /\ \A i \in 2..Len(seg) : Lookup(<<>>, seg[i].prev) = NoBlock
     /\ acceptSegment(seg, fork, mining, LastRec("onNewBlocks", FALSE))

OnNewBlocks ==
  \/ OnNewBlocksAbort
  \/ \E P \in {b \in blocks : b.height < MaxHeight} :
       \E B \in BlockCandidates(P) : OnNewBlocksSegment(<<B>>)
  \/ \E P \in {b \in blocks : b.height + 1 < MaxHeight} :
       \E seg \in TwoBlockCandidates(P) : OnNewBlocksSegment(seg)

\* -------------------------------------------------------------- mineAsync
\* TransactionPool.orderByFeesDesc: a stable sort
RECURSIVE InsertByFees(_, _)
InsertByFees(sorted, p) ==
  IF sorted = <<>> THEN <<p>>
  ELSE IF Head(sorted).fees >= p.fees
       THEN <<Head(sorted)>> \o InsertByFees(Tail(sorted), p)
       ELSE <<p>> \o sorted

RECURSIVE orderByFeesDesc(_)
orderByFeesDesc(P) ==
  IF P = <<>> THEN <<>>
  ELSE InsertByFees(orderByFeesDesc(SubSeq(P, 1, Len(P) - 1)), P[Len(P)])

\* Block.selectTransactions: in the order given, every transaction that still
\* fits below maxDataBytes
RECURSIVE selectTransactions(_, _)
selectTransactions(txs, used) ==
  IF txs = <<>> THEN <<>>
  ELSE IF used + bytesLength(Head(txs)) <= maxDataBytes
       THEN <<Head(txs)>> \o selectTransactions(Tail(txs), used + bytesLength(Head(txs)))
       ELSE selectTransactions(Tail(txs), used)

getCurrentDifficulty ==
  LET duration == tip.ts - lastOf(<<>>, tip, 9).ts
      expected == BLOCK_GENERATION_TARGET_IN_MILLS * DIFFICULTY_ADJUSTMENT_EVERY_BLOCKS
  IN IF tip.height % DIFFICULTY_ADJUSTMENT_EVERY_BLOCKS # 0 THEN tip.difficulty
     ELSE IF 2 * duration < expected THEN Min(tip.difficulty + 1, 256)
     ELSE IF duration > expected * 2 THEN Max(tip.difficulty - 1, 1)
     ELSE tip.difficulty

RECURSIVE calculateTotalFees(_)
calculateTotalFees(txs) ==
  IF txs = <<>> THEN 0
  ELSE InAmount(uTxOuts, Head(txs).inputs) - outputValue(Head(txs))
       + calculateTotalFees(Tail(txs))

\* generateBlock: the candidate on the tip, nonce still zero
generateBlock ==
  LET ordered  == orderByFeesDesc(pool)
      cb0      == buildCoinbaseTx(account, 0, tip.height + 1)
      selected == selectTransactions([i \in 1..Len(ordered) |-> ordered[i].tx],
                                     bytesLength(cb0))
      cb       == buildCoinbaseTx(account,
                    getCoinbaseRewardAtHeight(tip.height + 1) + calculateTotalFees(selected),
                    tip.height + 1)
  IN [height |-> tip.height + 1, ts |-> Now, prev |-> Hash(tip),
      difficulty |-> getCurrentDifficulty, nonce |-> 0,
      txs |-> <<cb>> \o selected]

\* mineAsync / submitMine up to the start of the miner. While a miner has not
\* finished they return that miner and change nothing; generateBlock throws
\* when a pending transaction names an output that is not in uTxOuts.
MineAsync ==
  /\ UNCHANGED aside
  /\ mining.st = "idle"
  /\ tip.height < MaxHeight
  /\ \A i \in 1..Len(pool) : AllInputsFound(uTxOuts, pool[i].tx)
  /\ mining' = [st |-> "searching", block |-> generateBlock]
  /\ last' = LastRec("mineAsync", FALSE)
  /\ UNCHANGED <<blocks, next, tip, uTxOuts, pool, pendingUTxOuts>>

\* BlockMiner.run finds a nonce with a valid proof; the promise resolves and
\* tryAccept -> onNewBlock runs in the same turn of the event loop.
MinerFound ==
  /\ UNCHANGED aside
  /\ mining.st = "searching"
  /\ LET block == [mining.block EXCEPT !.nonce = mining.block.difficulty]
         fork  == Lookup(<<>>, block.prev)
         done  == [st |-> "idle", block |-> NoBlock]
     IN IF block \in blocks \/ tip.height > block.height \/ fork = NoBlock
        THEN /\ mining' = done
             /\ last' = LastRec("onNewBlock", FALSE)
             /\ UNCHANGED <<blocks, next, tip, uTxOuts, pool, pendingUTxOuts>>
        ELSE acceptSegment(<<block>>, fork, done, LastRec("onNewBlock", FALSE))

\* BlockMiner.run sees stop: the promise resolves with null.
MinerCancelled ==
  /\ UNCHANGED aside
  /\ mining.st = "stopping"
  /\ mining' = [st |-> "idle", block |-> NoBlock]
  /\ last' = LastRec("minerCancelled", FALSE)
  /\ UNCHANGED <<blocks, next, tip, uTxOuts, pool, pendingUTxOuts>>

\* ------------------------------------------------------------------- send
\* Array.prototype.sort by amount, ascending and stable
RECURSIVE InsertByAmount(_, _)
InsertByAmount(sorted, u) ==
  IF sorted = <<>> THEN <<u>>
  ELSE IF Head(sorted).output.amount <= u.output.amount
       THEN <<Head(sorted)>> \o InsertByAmount(Tail(sorted), u)
       ELSE <<u>> \o sorted

RECURSIVE sortByAmount(_)
sortByAmount(U) ==
  IF U = <<>> THEN <<>>
  ELSE InsertByAmount(sortByAmount(SubSeq(U, 1, Len(U) - 1)), U[Len(U)])

RECURSIVE SumUTxOuts(_)
SumUTxOuts(U) == IF U = <<>> THEN 0 ELSE Head(U).output.amount + SumUTxOuts(Tail(U))

\* the loop that fills willSpend: how many of the sorted outputs it takes
RECURSIVE willSpendCount(_, _, _)
willSpendCount(U, amount, inputValue) ==
  IF U = <<>> THEN 0
  ELSE IF inputValue + Head(U).output.amount >= amount THEN 1
       ELSE 1 + willSpendCount(Tail(U), amount, inputValue + Head(U).output.amount)

\* trySetFees on the transaction with the inputs ins, the payment amount and
\* the change output (change < 0: there is none): [ok, change]
trySetFees(ins, amount, change) ==
  LET totalIn  == SumUTxOuts(ins)
      totalOut == amount + (IF change < 0 THEN 0 ELSE change)
      minFees  == (8 + Len(ins) * 108 + (IF change < 0 THEN 1 ELSE 2) * 73)
                  * MIN_TX_FEES_EVERY_BYTE
  IN IF totalIn = totalOut + minFees THEN [ok |-> TRUE, change |-> change]
     ELSE IF change < 0 THEN [ok |-> FALSE, change |-> change]
     ELSE IF change < minFees THEN [ok |-> FALSE, change |-> change]
     ELSE [ok |-> TRUE, change |-> change - minFees]

\* the while loop of send: [ok, ins, change]
RECURSIVE feeLoop(_, _, _, _)
feeLoop(ins, amount, change, unspent) ==
  LET r == trySetFees(ins, amount, change)
  IN IF r.ok THEN [ok |-> TRUE, ins |-> ins, change |-> r.change]
     ELSE IF unspent = <<>> THEN [ok |-> FALSE, ins |-> ins, change |-> change]
     ELSE feeLoop(Append(ins, Head(unspent)), amount,
                  change + Head(unspent).output.amount, Tail(unspent))

\* send up to the signing: [ok, tx]
buildSend(to, amount) ==
  LET mine   == sortByAmount(SelectSeq(uTxOuts,
                   LAMBDA u : u.output.publicKey = account /\ UId(u) \notin pendingUTxOuts))
      total  == SumUTxOuts(mine)
      k      == willSpendCount(mine, amount, 0)
      spend  == SubSeq(mine, 1, k)
      rest   == SubSeq(mine, k + 1, Len(mine))
      inVal  == SumUTxOuts(spend)
      change == IF inVal > amount THEN inVal - amount ELSE 0 - 1
      fees   == (8 + k * 108 + (IF change < 0 THEN 1 ELSE 2) * 73) * MIN_TX_FEES_EVERY_BYTE
      first  == trySetFees(spend, amount, change)
      r      == IF first.ok THEN [ok |-> TRUE, ins |-> spend, change |-> first.change]
                ELSE feeLoop(spend, amount, IF change < 0 THEN 0 ELSE change, rest)
      tx     == [inputs  |-> [i \in 1..Len(r.ins) |->
                                TxIn(r.ins[i].txid, r.ins[i].index, account)],
                 outputs |-> <<TxOut(amount, to)>>
                             \o (IF r.change < 0 THEN <<>> ELSE <<TxOut(r.change, account)>>)]
  IN IF total < amount \/ total < amount + fees \/ ~r.ok
     THEN [ok |-> FALSE, tx |-> [inputs |-> <<>>, outputs |-> <<>>]]
     ELSE [ok |-> TRUE, tx |-> tx]

SendAmounts == {100, 1000}

Send(to, amount) ==
  LET r == buildSend(to, amount)
      P == PoolAdd(<<pool, pendingUTxOuts>>,
                   [tx |-> r.tx, fees |-> InAmount(uTxOuts, r.tx.inputs) - outputValue(r.tx)])
  IN /\ UNCHANGED aside
     /\ r.ok => Len(P[1]) <= MaxPool
     /\ IF r.ok
        THEN pool' = P[1] /\ pendingUTxOuts' = P[2]
        ELSE UNCHANGED <<pool, pendingUTxOuts>>
     /\ last' = LastRec("send", r.ok)
     /\ UNCHANGED <<blocks, next, tip, uTxOuts, mining>>

\* --------------------------------------------------------------- onNewTxs
\* an input of tx is claimed by a pending transaction
InputAlreadyInPool(P, tx) ==
  \E p \in 1..Len(P) : \E i \in 1..Len(P[p].tx.inputs) : \E j \in 1..Len(tx.inputs) :
     /\ tx.inputs[j].index = P[p].tx.inputs[i].index
     /\ tx.inputs[j].txid = P[p].tx.inputs[i].txid

\* the try block without the check of the fees
incomingTxAcceptedAnyFees(P, tx) ==
  /\ AllInputsFound(uTxOuts, tx)
  /\ ~(InAmount(uTxOuts, tx.inputs) < outputValue(tx))
  /\ AllInputsVerify(uTxOuts, tx)
  /\ ~InputAlreadyInPool(P, tx)

\* the body of the try block for one delivered transaction
incomingTxAccepted(P, tx) ==
  /\ AllInputsFound(uTxOuts, tx)
  /\ ~(InAmount(uTxOuts, tx.inputs) < outputValue(tx))
  /\ ~(InAmount(uTxOuts, tx.inputs) - outputValue(tx) < bytesLength(tx) * MIN_TX_FEES_EVERY_BYTE)
  /\ AllInputsVerify(uTxOuts, tx)
  /\ ~InputAlreadyInPool(P, tx)

\* the loop over response.txs: [P, valid], P the pool pair, valid the set
\* validTxIds
RECURSIVE ingestTxs(_, _, _)
ingestTxs(txs, P, valid) ==
  IF txs = <<>> THEN [P |-> P, valid |-> valid]
  ELSE LET tx == Head(txs)
       IN IF incomingTxAccepted(P[1], tx)
          THEN ingestTxs(Tail(txs),
                         PoolAdd(P, [tx |-> tx,
                                     fees |-> InAmount(uTxOuts, tx.inputs) - outputValue(tx)]),
                         valid \cup {TxId(tx)})
          ELSE ingestTxs(Tail(txs), P, valid)

\* The ingestion rule as it is specified, for the delivered transactions in
\* turn: claimed is the set of outputs claimed by pending transactions.
RuleHolds(tx, claimed) ==
  LET ids == 1..Len(tx.inputs)
      ref(i) == {k \in 1..Len(uTxOuts) :
                   uTxOuts[k].txid = tx.inputs[i].txid /\ uTxOuts[k].index = tx.inputs[i].index}
      amt(i) == uTxOuts[CHOOSE k \in ref(i) : TRUE].output.amount
      key(i) == uTxOuts[CHOOSE k \in ref(i) : TRUE].output.publicKey
      sumIn[n \in 0..Len(tx.inputs)] == IF n = 0 THEN 0 ELSE sumIn[n - 1] + amt(n)
      sumOut[n \in 0..Len(tx.outputs)] ==
        IF n = 0 THEN 0 ELSE sumOut[n - 1] + tx.outputs[n].amount
  IN /\ \A i \in ids : ref(i) # {}
     /\ sumIn[Len(tx.inputs)] >= sumOut[Len(tx.outputs)]
     /\ sumIn[Len(tx.inputs)] - sumOut[Len(tx.outputs)]
          >= 8 + 108 * Len(tx.inputs) + 73 * Len(tx.outputs)
     /\ \A i \in ids : tx.inputs[i].sig = key(i)
     /\ \A i \in ids : [txid |-> tx.inputs[i].txid, index |-> tx.inputs[i].index] \notin claimed

\* the ids of the delivered transactions that satisfy the rule, in turn
RECURSIVE RuleVerdicts(_, _)
RuleVerdicts(txs, claimed) ==
  IF txs = <<>> THEN {}
  ELSE LET ok == RuleHolds(Head(txs), claimed)
       IN (IF ok THEN {TxId(Head(txs))} ELSE {})
          \cup RuleVerdicts(Tail(txs),
                            IF ok THEN claimed \cup InputIds(Head(txs)) ELSE claimed)

PoolClaims == UNION {InputIds(pool[i].tx) : i \in 1..Len(pool)}

\* The handler returns before it has transactions: txids is no array, all
\* of them are pending already, or the gettx request fails.
OnNewTxsAbort ==
  /\ UNCHANGED aside
  /\ last' = LastRec("onNewTxs", FALSE)
  /\ UNCHANGED <<blocks, next, tip, uTxOuts, pool, pendingUTxOuts, mining>>

\* The peer answers gettx with the transactions txs.
OnNewTxsResponse(txs) ==
  LET r == ingestTxs(txs, <<pool, pendingUTxOuts>>, {})
  IN /\ UNCHANGED aside
     /\ Len(r.P[1]) <= MaxPool
     /\ pool' = r.P[1]
     /\ pendingUTxOuts' = r.P[2]
     /\ last' = [LastRec("onNewTxs", r.valid # {}) EXCEPT
                   !.offered = Len(txs),
                   !.ruleOk = RuleVerdicts(txs, PoolClaims),
                   !.announced = r.valid]
     /\ UNCHANGED <<blocks, next, tip, uTxOuts, mining>>

\* what a peer may answer: one transaction over an unspent output, or two
\* payments of the same output
TxResponses ==
  LET U == SeqToSet(uTxOuts)
  IN {<<c.tx>> : c \in UNION {TxCandidates(u, "b") : u \in U}}
     \cup {<<Payment(u, "b").tx, Payment(u, "a").tx>> : u \in Payable(U)}

OnNewTxs ==
  \/ OnNewTxsAbort
  \/ \E txs \in TxResponses : OnNewTxsResponse(txs)

\* ------------------------------------------------------------------- Next
Next ==
  \/ OnNewBlocks
  \/ MineAsync
  \/ MinerFound
  \/ MinerCancelled
  \/ \E amount \in SendAmounts : Send("b", amount)
  \/ OnNewTxs

Spec == Init /\ [][Next]_vars

\* ============================================================ properties
\* the blocks of the active chain above genesis, in chain order
ActiveChain == Tail(ChainTo(tip))

\* every transaction of the active chain above genesis
ActiveTxs == TxsOf(ActiveChain)

\* the transfers (non-coinbase transactions) of the blocks bs, in order
RECURSIVE TransfersOf(_)
TransfersOf(bs) ==
  IF bs = <<>> THEN <<>> ELSE transactions(Head(bs)) \o TransfersOf(Tail(bs))

Transfers == TransfersOf(ActiveChain)

\* the outpoints named by the inputs of the transfers of the active chain
ConsumedIds == UNION {InputIds(Transfers[i]) : i \in 1..Len(Transfers)}

\* the outputs created on the active chain, coinbase outputs included
CreatedOutputs ==
  UNION {SeqToSet(fromTransaction(ActiveTxs[i])) : i \in 1..Len(ActiveTxs)}

\* C1 -- UTXO consistency: no output consumed by an input of the active chain
\* is in the UTXO set, and every output created on the active chain (coinbase
\* outputs included) is in the UTXO set or consumed by an active-chain input.
\* Stated for the blocks above genesis.
UTxOutConsistency ==
  /\ \A k \in 1..Len(uTxOuts) : UId(uTxOuts[k]) \notin ConsumedIds
  /\ \A o \in CreatedOutputs : o \in SeqToSet(uTxOuts) \/ UId(o) \in ConsumedIds

\* C2 -- Reorg UTXO rebuild: when an ingestion rebuilt the snapshot for a
\* segment that forks from the stored block F, the snapshot is the UTXO set
\* obtained by applying the blocks of the chain from genesis through F.
RebuildIsReplay ==
  last.rebuilt =>
    /\ SeqToSet(last.snapshot) = Unspent(last.fork)
    /\ Cardinality(SeqToSet(last.snapshot)) = Len(last.snapshot)

\* C3 -- Cumulative-work reorg decision: a segment that forks from a stored
\* block with an active successor and satisfies every validity rule is
\* adopted if its work is at least the work of the local suffix, and
\* rejected if it is smaller.
ReorgByWork ==
  (last.op = "onNewBlocks" /\ last.reorg /\ last.specValid)
    => (last.accepted <=> last.workEnough)

\* C4 -- No mutation on rejection: an ingestion of a blockinv or of a mined
\* block that fails leaves the chain store, the tip, the next pointers, the
\* UTXO set and the mempool as they were.
RejectionKeepsState ==
  [][(last'.op \in {"onNewBlocks", "onNewBlock"} /\ ~last'.accepted)
       => UNCHANGED nodeState]_vars

\* a segment with enough work was rejected after the snapshot was rebuilt
RejectedAfterRebuild ==
  last.op = "onNewBlocks" /\ ~last.accepted /\ last.rebuilt

\* C5 -- Proof property: every stored block has a hash with at least
\* difficulty leading zero bits.
ProofProperty == \A b \in blocks : b.nonce >= b.difficulty

\* the outpoints named by the inputs of the transfers txs, one per input
RECURSIVE InputSeq(_)
InputSeq(txs) ==
  IF txs = <<>> THEN <<>>
  ELSE [i \in 1..Len(Head(txs).inputs) |-> UId(Head(txs).inputs[i])]
       \o InputSeq(Tail(txs))

\* C6 -- No double-spend: across the active chain no outpoint is named by
\* more than one input, be it of two transactions or of one.
NoDoubleSpend ==
  LET ins == InputSeq(Transfers)
  IN \A i \in 1..Len(ins) : \A j \in 1..Len(ins) : i # j => ins[i] # ins[j]

\* the amount of the output at the outpoint id, created on the active chain
AmountAt(id) ==
  LET hit == {o \in CreatedOutputs : UId(o) = id}
  IN IF hit = {} THEN 0 ELSE (CHOOSE o \in hit : TRUE).output.amount

\* sum_in of a transfer: one term per input
RECURSIVE SumIn(_)
SumIn(ins) == IF ins = <<>> THEN 0 ELSE AmountAt(UId(Head(ins))) + SumIn(Tail(ins))

\* the sum of sum_in - sum_out over the transfers txs
RECURSIVE FeesOf(_)
FeesOf(txs) ==
  IF txs = <<>> THEN 0
  ELSE SumIn(Head(txs).inputs) - outputValue(Head(txs)) + FeesOf(Tail(txs))

\* subsidy(h) = floor(COINBASE_REWARD / 2^floor(h / 210000))
Subsidy(h) == COINBASE_REWARD \div (2 ^ (h \div REWARD_HALVING_EVERY_BLOCKS))

\* C7 -- Coinbase rule: every block of the active chain has a coinbase with
\* one input naming the block height and one output of at most the subsidy
\* plus the fees of the block's transfers; no other block is in the chain.
CoinbaseRule ==
  \A i \in 1..Len(ActiveChain) :
     LET b == ActiveChain[i]
     IN /\ b.txs # <<>>
        /\ Len(b.txs[1].inputs) = 1
        /\ b.txs[1].inputs[1].index = b.height
        /\ Len(b.txs[1].outputs) = 1
        /\ b.txs[1].outputs[1].amount <= Subsidy(b.height) + FeesOf(Tail(b.txs))

\* a block whose coinbase collects fees above the subsidy is on the chain
CoinbaseWithFees ==
  \E i \in 1..Len(ActiveChain) :
     /\ Len(ActiveChain[i].txs) > 1
     /\ ActiveChain[i].txs[1].outputs[1].amount > Subsidy(ActiveChain[i].height)

\* the sum of the amounts of a set of outputs
RECURSIVE AmountOf(_)
AmountOf(os) ==
  IF os = {} THEN 0
  ELSE LET o == CHOOSE x \in os : TRUE IN o.output.amount + AmountOf(os \ {o})

\* C8 -- Fee lower bound: for every transfer of the active chain the amounts
\* of the outputs it consumes minus its output amounts is at least its size
\* in bytes, 8 + 108 * |inputs| + 73 * |outputs|.
FeeLowerBound ==
  \A i \in 1..Len(Transfers) :
     LET tx == Transfers[i]
     IN AmountOf({o \in CreatedOutputs : UId(o) \in InputIds(tx)}) - outputValue(tx)
          >= 8 + 108 * Len(tx.inputs) + 73 * Len(tx.outputs)

\* C9 -- Mempool soundness: every input of every pending transaction names
\* an output of the UTXO set.
MempoolSound ==
  \A i \in 1..Len(pool) : \A j \in 1..Len(pool[i].tx.inputs) :
     \E k \in 1..Len(uTxOuts) :
        /\ uTxOuts[k].txid = pool[i].tx.inputs[j].txid
        /\ uTxOuts[k].index = pool[i].tx.inputs[j].index

\* a pending transaction outlived the acceptance of a block
PoolAfterBlock == pool # <<>> /\ last.op = "onNewBlocks" /\ last.accepted

PoolIds == {TxId(pool[i].tx) : i \in 1..Len(pool)}

\* C10 -- Transaction ingestion rule: a transaction of a gettx response
\* enters the mempool and is announced only if it satisfies the rule
\* (inputs resolve, sum_in >= sum_out, fees cover the bytes, signatures
\* verify, no input claimed by a pending transaction); a response without
\* such a transaction leaves the mempool as it was and announces nothing.
IngestionRule ==
  [][last'.op = "onNewTxs" =>
       /\ PoolIds' \ PoolIds \subseteq last'.ruleOk
       /\ last'.announced \subseteq last'.ruleOk
       /\ last'.ruleOk = {} => UNCHANGED <<pool, pendingUTxOuts>>]_vars

\* of two delivered transactions one was added and announced, one refused
OneOfTwoIngested ==
  last.op = "onNewTxs" /\ last.offered = 2 /\ Cardinality(last.announced) = 1

\* ======================================================= SyncronizedQueue
\* What the task _ of a schedule() call does when it is called: it returns a
\* value or a promise that fulfils, returns a promise that rejects, or
\* throws before it returns.
TaskKinds == {"fulfil", "reject", "throw"}

\* resolve / reject of a promise: only the first call has an effect
settlePromise(p, state) ==
  [state |-> IF p.state = "pending" THEN state ELSE p.state, calls |-> p.calls + 1]

\* the head of the queue is called after every push
startsAlways(len) == TRUE

\* schedule: "if (this.queue.length === 1)" after the push
startsNow(len) == len = 1

\* callNext runs only behind a task that fulfilled
advancesOnFulfil(kind) == kind = "fulfil"

\* ".then(() => { }, () => { }).finally(() => this.callNext())": the outcome
\* of the task is swallowed, callNext runs behind every task
advances(kind) == kind \in TaskKinds

\* promiseTask: _() is called. A throw rejects the returned promise at once
\* and the task has settled; otherwise the task runs.
promiseTask(T, P, id) ==
  IF T[id].kind = "throw"
  THEN [tasks    |-> [T EXCEPT ![id].st = "settled"],
        promises |-> [P EXCEPT ![id] = settlePromise(P[id], "rejected")]]
  ELSE [tasks |-> [T EXCEPT ![id].st = "running"], promises |-> P]

\* schedule(_): the task is pushed, and called if it is alone in the queue
schedule(kind) ==
  \E id \in TaskIds :
     /\ tasks[id].st = "none"
     /\ \A j \in 1..(id - 1) : tasks[j].st # "none"
     /\ LET T == [tasks EXCEPT ![id] = [kind |-> kind, st |-> "queued"]]
            q == Append(queue, id)
            c == promiseTask(T, promises, q[1])
        IN /\ queue' = q
           /\ IF startsNow(Len(q))
              THEN tasks' = c.tasks /\ promises' = c.promises
                   /\ started' = Append(started, q[1])
              ELSE tasks' = T /\ UNCHANGED <<promises, started>>
     /\ UNCHANGED <<vars, xvars, mvars, netvars>>

\* the promise returned by the running task settles
settle(id) ==
  /\ tasks[id].st = "running"
  /\ tasks' = [tasks EXCEPT ![id].st = "settled"]
  /\ UNCHANGED <<queue, promises, started, vars, xvars, mvars, netvars>>

\* "result.then(resolve, reject)": the reaction that settles the promise
\* schedule() returned
resolveReturned(id) ==
  /\ tasks[id].st \in {"settled", "shifted"}
  /\ tasks[id].kind # "throw"
  /\ promises[id].calls = 0
  /\ promises' = [promises EXCEPT ![id] =
                    settlePromise(@, IF tasks[id].kind = "fulfil" THEN "fulfilled"
                                     ELSE "rejected")]
  /\ UNCHANGED <<queue, tasks, started, vars, xvars, mvars, netvars>>

\* callNext, the reaction behind the settled head of the queue (it is
\* registered after "result.then(resolve, reject)" and runs after it)
callNext ==
  /\ queue # <<>>
  /\ tasks[Head(queue)].st = "settled"
  /\ promises[Head(queue)].calls > 0
  /\ advances(tasks[Head(queue)].kind)
  /\ LET T == [tasks EXCEPT ![Head(queue)].st = "shifted"]
         q == Tail(queue)
     IN /\ queue' = q
        /\ IF q # <<>>
           THEN LET c == promiseTask(T, promises, q[1])
                IN tasks' = c.tasks /\ promises' = c.promises
                   /\ started' = Append(started, q[1])
           ELSE tasks' = T /\ UNCHANGED <<promises, started>>
  /\ UNCHANGED <<vars, xvars, mvars, netvars>>

QueueNext ==
  \/ \E kind \in TaskKinds : schedule(kind)
  \/ \E id \in TaskIds : settle(id)
  \/ \E id \in TaskIds : resolveReturned(id)
  \/ callNext

QueueSpec == Init /\ [][QueueNext]_qvars

\* Reactions of settled promises always run; a task that runs settles (the
\* proviso of the progress claim).
QueueFairSpec ==
  /\ QueueSpec
  /\ WF_qvars(callNext)
  /\ \A id \in TaskIds : WF_qvars(settle(id)) /\ WF_qvars(resolveReturned(id))

Begun == {"running", "settled", "shifted"}

\* C11 -- Queue serialisation: at most one task is executing, the tasks are
\* called in the order of their schedule() calls, and a task is called only
\* after every task scheduled before it has settled.
QueueSerialised ==
  /\ Cardinality({id \in TaskIds : tasks[id].st = "running"}) <= 1
  /\ \A i \in 1..Len(started) : started[i] = i
  /\ \A id \in TaskIds :
       tasks[id].st \in Begun =>
         \A j \in 1..(id - 1) : tasks[j].st \in {"settled", "shifted"}

\* the first task threw, the second runs, the third waits
QueueBusy ==
  /\ tasks[1].kind = "throw" /\ tasks[1].st = "shifted"
  /\ tasks[2].st = "running"
  /\ tasks[3].st = "queued"

\* C12 -- Queue progress: every scheduled task is called eventually, also
\* behind tasks that reject or throw, and the promise returned by schedule()
\* settles once, fulfilled for a task that fulfils and rejected for a task
\* that rejects or throws.
QueueProgress ==
  /\ \A id \in TaskIds : (tasks[id].st = "queued") ~> (tasks[id].st \in Begun)
  /\ \A id \in TaskIds : (tasks[id].st = "settled") ~> (promises[id].state # "pending")
  /\ [](\A id \in TaskIds :
          /\ promises[id].calls <= 1
          /\ promises[id].state = "fulfilled" => tasks[id].kind = "fulfil"
          /\ promises[id].state = "rejected" => tasks[id].kind \in {"reject", "throw"}
          /\ promises[id].state # "pending" => tasks[id].st \in {"settled", "shifted"})

\* a task runs behind one that rejected and one that threw
QueuePastFailures ==
  /\ tasks[1].kind = "reject" /\ promises[1].state = "rejected"
  /\ tasks[2].kind = "throw" /\ promises[2].state = "rejected"
  /\ tasks[3].st = "running"

\* ============================================================= BlockMiner
\* "for (let i = 0; i < 100; i++)": the nonces of one chunk
ChunkNonces == 100

\* the stop flag is never looked at
sawStopNever(s) == FALSE

\* "if (this.stop) return onSuccess(null)"
sawStop(s) == s

\* the loop takes one more round
loopRunsOneMore(i) == i < ChunkNonces + 1

\* the loop condition "i < 100"
loopRuns(i) == i < ChunkNonces

\* resolve of the promise: only the first call has an effect
resolve(p, value) == IF p = "pending" THEN value ELSE p

\* the callback of the timer set by run(): the chunk starts
RunTimer ==
  /\ run.at = "timer"
  /\ IF sawStop(stop)
     THEN promise' = resolve(promise, "null") /\ run' = [at |-> "ended", i |-> 0]
     ELSE run' = [at |-> "loop", i |-> 0] /\ UNCHANGED promise
  /\ UNCHANGED <<stop, finished, proof, delivered, minerLog, vars, xvars, qvars, netvars>>

\* one round of the loop: a random nonce is set and the proof tested
RunTrial(valid) ==
  /\ run.at = "loop"
  /\ loopRuns(run.i)
  /\ IF sawStop(stop)
     THEN /\ promise' = resolve(promise, "null")
          /\ run' = [at |-> "ended", i |-> run.i]
          /\ UNCHANGED <<proof, minerLog>>
     ELSE /\ proof' = valid
          /\ minerLog' = [minerLog EXCEPT !.sinceCancel = IF stop THEN 1 ELSE @]
          /\ IF valid
             THEN promise' = resolve(promise, "block")
                  /\ run' = [at |-> "ended", i |-> run.i + 1]
             ELSE run' = [at |-> "loop", i |-> run.i + 1] /\ UNCHANGED promise
  /\ UNCHANGED <<stop, finished, delivered, vars, xvars, qvars, netvars>>

\* the loop is over without a proof: run() sets the next timer
RunYield ==
  /\ run.at = "loop"
  /\ ~loopRuns(run.i)
  /\ run' = [at |-> "timer", i |-> 0]
  /\ minerLog' = [minerLog EXCEPT !.yielded = TRUE]
  /\ UNCHANGED <<stop, finished, promise, proof, delivered, vars, xvars, qvars, netvars>>

\* "this.promise.finally(() => { this.finished = true })", registered by the
\* constructor
PromiseFinally ==
  /\ promise # "pending"
  /\ ~finished
  /\ finished' = TRUE
  /\ UNCHANGED <<stop, promise, run, proof, delivered, minerLog, vars, xvars, qvars, netvars>>

\* the callbacks registered by then(): they are registered after the one of
\* the constructor and run after it
PromiseThen ==
  /\ promise # "pending"
  /\ finished
  /\ delivered = "none"
  /\ delivered' = promise
  /\ UNCHANGED <<stop, finished, promise, run, proof, minerLog, vars, xvars, qvars, netvars>>

\* cancel(), called from another turn of the event loop: never inside a chunk
CancelCall ==
  /\ run.at # "loop"
  /\ stop' = TRUE
  /\ minerLog' = [minerLog EXCEPT !.early = @ \/ promise = "pending"]
  /\ UNCHANGED <<finished, promise, run, proof, delivered, vars, xvars, qvars, netvars>>

MinerNext ==
  \/ RunTimer
  \/ \E valid \in BOOLEAN : RunTrial(valid)
  \/ RunYield
  \/ PromiseFinally
  \/ PromiseThen
  \/ CancelCall

MinerSpec == Init /\ [][MinerNext]_mvars

\* Timers fire and reactions of a resolved promise run.
MinerFairSpec ==
  /\ MinerSpec
  /\ WF_mvars(RunTimer)
  /\ WF_mvars(\E valid \in BOOLEAN : RunTrial(valid))
  /\ WF_mvars(RunYield)
  /\ WF_mvars(PromiseFinally)
  /\ WF_mvars(PromiseThen)

\* C19 -- Miner terminal outcome: the promise resolves with the block only
\* when its proof is valid, a cancel() before that makes it resolve with
\* null, once resolved it never changes (cancel() has no effect then), and
\* when the outcome is delivered finished is set.
MinerOutcome ==
  /\ [](promise = "block" => proof)
  /\ [](minerLog.early => promise \in {"pending", "null"})
  /\ [](delivered # "none" => finished /\ delivered = promise)
  /\ [][promise # "pending" => promise' = promise]_mvars
  /\ [][delivered # "none" => delivered' = delivered]_mvars
  /\ [][finished => finished']_mvars

\* the block was delivered and cancel() came afterwards
FoundThenCancelled == delivered = "block" /\ stop /\ ~minerLog.early

\* C20 -- Prompt cancellation: a chunk tests at most 100 nonces, no nonce is
\* tested once cancel() was called, the chunk that starts after cancel()
\* resolves the promise with null, and a cancelled miner finishes.
MinerCancelPrompt ==
  /\ [](run.i <= ChunkNonces)
  /\ [](minerLog.sinceCancel = 0)
  /\ [][(stop /\ run.at = "timer" /\ run'.at # "timer") => promise' = "null"]_mvars
  /\ (stop /\ promise = "pending") ~> (finished /\ promise = "null")

\* cancelled after a full chunk without proof, and finished with null
CancelledAfterChunk ==
  minerLog.yielded /\ minerLog.early /\ finished /\ delivered = "null"

\* ============================================== two nodes, one connection
\* F(x), with x evaluated once and not wherever F names it
Once(x, F(_)) == CHOOSE y \in {F(v) : v \in {x}} : TRUE

\* The operators of Node on the fields of one node nd of the two.
\* "blocks[hex(h)] ?? this.blocks.get(hex(h))": the orphans first, then the
\* store. A peer delivers a block under its own hash.
BlockAt(nd, seg, h) ==
  IF \E i \in 1..Len(seg) : Hash(seg[i]) = h
  THEN seg[CHOOSE i \in 1..Len(seg) : Hash(seg[i]) = h]
  ELSE IF \E b \in nd.blocks : Hash(b) = h
       THEN CHOOSE b \in nd.blocks : Hash(b) = h
       ELSE NoBlock

StoredAt(nd, h) == BlockAt(nd, <<>>, h) # NoBlock

RECURSIVE lastOfAt(_, _, _, _)
lastOfAt(nd, seg, tail, n) ==
  IF n = 0 THEN tail
  ELSE LET p == BlockAt(nd, seg, tail.prev)
       IN IF p = NoBlock THEN tail ELSE lastOfAt(nd, seg, p, n - 1)

mtpAt(nd, seg, tail) == lastOfAt(nd, seg, tail, MEDIAN_TIME_PAST_WINDOW \div 2).ts

\* the block loop of validateNewBlocksAndUpdateUTxOuts
RECURSIVE ValidateBlocksAt(_, _, _, _, _)
ValidateBlocksAt(nd, seg, i, prev, U) ==
  IF i > Len(seg) THEN [ok |-> TRUE, uTxOuts |-> U]
  ELSE LET block == seg[i]
           duration == prev.ts - lastOfAt(nd, seg, block, 10).ts
           expectedDifficulty == getExpectedDifficulty(prev, duration)
       IN IF ~isValidNext(prev, block, expectedDifficulty, mtpAt(nd, seg, prev))
          THEN [ok |-> FALSE, uTxOuts |-> U]
          ELSE Once(ValidateTxs(transactions(block), U, 0), LAMBDA r :
                 IF ~r.ok \/ ~CoinbaseAccepted(block, r.totalFee)
                 THEN [ok |-> FALSE, uTxOuts |-> r.uTxOuts]
                 ELSE Once(UAddAll(r.uTxOuts, fromTransaction(coinbase(block))),
                           LAMBDA U1 : ValidateBlocksAt(nd, seg, i + 1, block, U1)))

validateNewBlocksAt(nd, seg, uTxOutsState) ==
  IF seg[Len(seg)].ts >= Now + MAX_FUTURE_DRIFT_IN_MILLS
  THEN [ok |-> FALSE, uTxOuts |-> uTxOutsState]
  ELSE IF ~StoredAt(nd, seg[1].prev)
       THEN [ok |-> FALSE, uTxOuts |-> uTxOutsState]
       ELSE ValidateBlocksAt(nd, seg, 1, BlockAt(nd, <<>>, seg[1].prev), uTxOutsState)

RECURSIVE LocalWorkAt(_, _)
LocalWorkAt(nd, b) ==
  IF b = NoBlock THEN 0 ELSE Pow2(b.difficulty) + LocalWorkAt(nd, nd.next[b])

\* every incoming chain passes
validateDifficultyAlways(nd, localBlockStart, seg) == TRUE

\* validateDifficulty: "if (incomingDifficulty >= localDifficulty) return"
validateDifficultyAt(nd, localBlockStart, seg) ==
  localBlockStart = NoBlock \/ SegWork(seg) >= LocalWorkAt(nd, localBlockStart)

\* the try block of onNewBlocks / onNewBlock: [ok, uTxOuts]
validateSegmentAt(nd, seg, fork) ==
  IF nd.next[fork] = NoBlock
  THEN validateNewBlocksAt(nd, seg, nd.uTxOuts)
  ELSE IF ~validateDifficultyAt(nd, nd.next[fork], seg)
       THEN [ok |-> FALSE, uTxOuts |-> nd.uTxOuts]
       ELSE LET rc == recalculateUTxOuts
            IN IF ~rc.ok THEN [ok |-> FALSE, uTxOuts |-> rc.uTxOuts]
               ELSE validateNewBlocksAt(nd, seg, rc.uTxOuts)

RECURSIVE SuffixAt(_, _)
SuffixAt(nd, b) == IF b = NoBlock THEN {} ELSE {b} \cup SuffixAt(nd, nd.next[b])

\* validation of seg on the stored block fork, then the statements after the
\* try block: [ok, node]
acceptAt(nd, seg, fork) ==
  Once(validateSegmentAt(nd, seg, fork), LAMBDA r :
    IF ~r.ok THEN [ok |-> FALSE, node |-> nd]
    ELSE Once(ReconcilePool(nd.pool, <<nd.pool, nd.pendingUTxOuts>>, r.uTxOuts), LAMBDA P :
         Once((nd.blocks \ SuffixAt(nd, nd.next[fork])) \cup SeqToSet(seg), LAMBDA kept :
           [ok |-> TRUE,
            node |-> [nd EXCEPT
              !.uTxOuts = r.uTxOuts,
              !.pool = P[1],
              !.pendingUTxOuts = P[2],
              !.mining = cancel(nd.mining),
              !.blocks = kept,
              !.next = [b \in kept |->
                          IF b = fork THEN seg[1]
                          ELSE IF \E i \in 1..Len(seg) : seg[i] = b
                               THEN LET i == CHOOSE j \in 1..Len(seg) : seg[j] = b
                                    IN IF i < Len(seg) THEN seg[i + 1] ELSE NoBlock
                               ELSE nd.next[b]],
              !.tip = seg[Len(seg)]]])))

getCurrentDifficultyAt(nd) ==
  LET duration == nd.tip.ts - lastOfAt(nd, <<>>, nd.tip, 9).ts
      expected == BLOCK_GENERATION_TARGET_IN_MILLS * DIFFICULTY_ADJUSTMENT_EVERY_BLOCKS
  IN IF nd.tip.height % DIFFICULTY_ADJUSTMENT_EVERY_BLOCKS # 0 THEN nd.tip.difficulty
     ELSE IF 2 * duration < expected THEN Min(nd.tip.difficulty + 1, 256)
     ELSE IF duration > expected * 2 THEN Max(nd.tip.difficulty - 1, 1)
     ELSE nd.tip.difficulty

RECURSIVE calculateTotalFeesAt(_, _)
calculateTotalFeesAt(nd, txs) ==
  IF txs = <<>> THEN 0
  ELSE InAmount(nd.uTxOuts, Head(txs).inputs) - outputValue(Head(txs))
       + calculateTotalFeesAt(nd, Tail(txs))

generateBlockAt(nd) ==
  LET ordered  == orderByFeesDesc(nd.pool)
      cb0      == buildCoinbaseTx(nd.account, 0, nd.tip.height + 1)
      selected == selectTransactions([i \in 1..Len(ordered) |-> ordered[i].tx],
                                     bytesLength(cb0))
      cb       == buildCoinbaseTx(nd.account,
                    getCoinbaseRewardAtHeight(nd.tip.height + 1)
                      + calculateTotalFeesAt(nd, selected),
                    nd.tip.height + 1)
  IN [height |-> nd.tip.height + 1, ts |-> Now, prev |-> Hash(nd.tip),
      difficulty |-> getCurrentDifficultyAt(nd), nonce |-> 0,
      txs |-> <<cb>> \o selected]

\* send up to the signing: [ok, tx]
buildSendAt(nd, to, amount) ==
  LET mine   == sortByAmount(SelectSeq(nd.uTxOuts,
                   LAMBDA u : u.output.publicKey = nd.account
                              /\ UId(u) \notin nd.pendingUTxOuts))
      total  == SumUTxOuts(mine)
      k      == willSpendCount(mine, amount, 0)
      spend  == SubSeq(mine, 1, k)
      rest   == SubSeq(mine, k + 1, Len(mine))
      inVal  == SumUTxOuts(spend)
      change == IF inVal > amount THEN inVal - amount ELSE 0 - 1
      fees   == (8 + k * 108 + (IF change < 0 THEN 1 ELSE 2) * 73) * MIN_TX_FEES_EVERY_BYTE
      first  == trySetFees(spend, amount, change)
      r      == IF first.ok THEN [ok |-> TRUE, ins |-> spend, change |-> first.change]
                ELSE feeLoop(spend, amount, IF change < 0 THEN 0 ELSE change, rest)
      tx     == [inputs  |-> [i \in 1..Len(r.ins) |->
                                TxIn(r.ins[i].txid, r.ins[i].index, nd.account)],
                 outputs |-> <<TxOut(amount, to)>>
                             \o (IF r.change < 0 THEN <<>>
                                 ELSE <<TxOut(r.change, nd.account)>>)]
  IN IF total < amount \/ total < amount + fees \/ ~r.ok
     THEN [ok |-> FALSE, tx |-> [inputs |-> <<>>, outputs |-> <<>>]]
     ELSE [ok |-> TRUE, tx |-> tx]

\* the try block of onNewTxs for one delivered transaction
incomingTxAcceptedAt(nd, P, tx) ==
  /\ AllInputsFound(nd.uTxOuts, tx)
  /\ ~(InAmount(nd.uTxOuts, tx.inputs) < outputValue(tx))
  /\ ~(InAmount(nd.uTxOuts, tx.inputs) - outputValue(tx)
         < bytesLength(tx) * MIN_TX_FEES_EVERY_BYTE)
  /\ AllInputsVerify(nd.uTxOuts, tx)
  /\ ~InputAlreadyInPool(P, tx)

\* the loop over response.txs: [P, valid], valid the ids in validTxIds
RECURSIVE ingestTxsAt(_, _, _, _)
ingestTxsAt(nd, txs, P, valid) ==
  IF txs = <<>> THEN [P |-> P, valid |-> valid]
  ELSE LET tx == Head(txs)
       IN IF incomingTxAcceptedAt(nd, P[1], tx)
          THEN ingestTxsAt(nd, Tail(txs),
                 PoolAdd(P, [tx |-> tx,
                             fees |-> InAmount(nd.uTxOuts, tx.inputs) - outputValue(tx)]),
                 IF \E i \in 1..Len(valid) : valid[i] = TxId(tx) THEN valid
                 ELSE Append(valid, TxId(tx)))
          ELSE ingestTxsAt(nd, Tail(txs), P, valid)

\* TransactionPool.keys
PoolKeys(P) == [i \in 1..Len(P) |-> TxId(P[i].tx)]

\* Block.summary
summary(b) == [hash |-> Hash(b), height |-> b.height]

\* ------------------------------------------------------------- messages
Msg(type) ==
  [type |-> type, hash |-> ZeroHash, height |-> 0, batch |-> 0,
   txids |-> <<>>, blocks |-> <<>>, txs |-> <<>>]

BlockInv(b) == [Msg("blockinv") EXCEPT !.hash = Hash(b), !.height = b.height]
TxInv(txids) == [Msg("txinv") EXCEPT !.txids = txids]
\* getblock { hash: [h] }
GetBlock(h) == [Msg("getblock") EXCEPT !.hash = h]
\* getblock { frontier, batch }
GetBatch(frontier, batch) == [Msg("getbatch") EXCEPT !.hash = frontier, !.batch = batch]
GetTx(txids) == [Msg("gettx") EXCEPT !.txids = txids]
\* the responses to getblock and to gettx
Blocks(bs) == [Msg("blocks") EXCEPT !.blocks = bs]
Txs(txs) == [Msg("txs") EXCEPT !.txs = txs]

MAX_FETCH_BATCH == 2048

\* nothing is sent
broadcastNothing(out, m) == out

\* Server.broadcast to the one peer
broadcast(out, m) == Append(out, m)

\* ------------------------------------------------ the blockinv tasks
\* A handler works on S = [node, ing, out]: the fields of the node, its
\* blockinv tasks, and the messages it sends to the peer.
\* The task at the head of the queue is called, and the tasks behind it as
\* long as they return at once: onNewBlocks returns when the announced hash
\* is stored, otherwise it sends getblock and waits.
RECURSIVE Drain(_)
Drain(S) ==
  IF S.ing.queue = <<>> THEN [S EXCEPT !.ing = IngestIdle]
  ELSE IF StoredAt(S.node, Head(S.ing.queue).hash)
       THEN Once([S EXCEPT !.ing.queue = Tail(@)], Drain)
       ELSE [S EXCEPT !.ing = [IngestIdle EXCEPT !.queue = S.ing.queue, !.at = "fetch"],
                      !.out = Append(@, GetBlock(Head(S.ing.queue).hash))]

\* the running task settles: callNext
Settle(S) == Once([S EXCEPT !.ing.queue = Tail(@)], Drain)

\* the handler of blockinv: queue.schedule
OnBlockInvAt(S, m) ==
  LET q == Append(S.ing.queue, [hash |-> m.hash, height |-> m.height])
  IN IF Len(q) = 1 THEN Once([S EXCEPT !.ing.queue = q], Drain)
     ELSE [S EXCEPT !.ing.queue = q]

\* nothing is stitched
StitchNothing(nd, orphans, got) == orphans

\* the inner loop of the gap-fill: the delivered blocks are put before the
\* orphans as far as they continue them downwards
RECURSIVE Stitch(_, _, _)
Stitch(nd, orphans, got) ==
  LET want == orphans[1].prev
  IN IF ~StoredAt(nd, want) /\ (\E i \in 1..Len(got) : Hash(got[i]) = want)
     THEN Once(<<got[CHOOSE i \in 1..Len(got) : Hash(got[i]) = want]>> \o orphans,
               LAMBDA longer : Stitch(nd, longer, got))
     ELSE orphans

\* onNewBlocks from the test of the gap-fill loop on: another batch is asked
\* for, or the orphans are validated and committed
Proceed(S) ==
  LET orphans == S.ing.orphans
      lowest  == orphans[1]
  IN IF ~StoredAt(S.node, lowest.prev)
     THEN [S EXCEPT !.ing.at = "gap",
                    !.out = Append(@, GetBatch(Hash(lowest), S.ing.batch))]
     ELSE Once(BlockAt(S.node, <<>>, lowest.prev), LAMBDA fork :
          Once(acceptAt(S.node, orphans, fork), LAMBDA r :
            IF r.ok
            THEN Settle([S EXCEPT !.node = r.node,
                                  !.out = broadcast(@, BlockInv(S.ing.newBlock))])
            ELSE Settle(S)))

\* the response to a getblock request arrives
OnBlocksAt(S, m) ==
  IF S.ing.at = "fetch"
  THEN IF m.blocks = <<>> THEN Settle(S)
       ELSE Once([S EXCEPT !.ing.newBlock = m.blocks[1],
                           !.ing.orphans = <<m.blocks[1]>>,
                           !.ing.batch = 2], Proceed)
  ELSE IF S.ing.at = "gap"
  THEN IF m.blocks = <<>> THEN Settle(S)
       ELSE IF ~\E i \in 1..Len(m.blocks) : Hash(m.blocks[i]) = S.ing.orphans[1].prev
            THEN Settle(S)
            ELSE Once([S EXCEPT !.ing.orphans = Stitch(S.node, @, m.blocks),
                                !.ing.batch = Min(2 * @, MAX_FETCH_BATCH)], Proceed)
  ELSE S

\* no ancestor is delivered
AncestorsNone(nd, b, k) == <<>>

\* getBlock for {frontier, batch}: up to batch ancestors of the frontier
RECURSIVE AncestorsAt(_, _, _)
AncestorsAt(nd, b, k) ==
  IF b = NoBlock \/ k = 0 THEN <<>>
  ELSE LET p == BlockAt(nd, <<>>, b.prev)
       IN IF p = NoBlock THEN <<>> ELSE <<p>> \o AncestorsAt(nd, p, k - 1)

\* getBlock
GetBlockAt(S, m) ==
  IF m.type = "getblock"
  THEN [S EXCEPT !.out = Append(@, Blocks(IF StoredAt(S.node, m.hash)
                                          THEN <<BlockAt(S.node, <<>>, m.hash)>>
                                          ELSE <<>>))]
  ELSE [S EXCEPT !.out = Append(@, Blocks(AncestorsAt(S.node,
                                            BlockAt(S.node, <<>>, m.hash), m.batch)))]

\* onNewTxs up to the gettx request
OnTxInvAt(S, m) ==
  LET known(id) == \E i \in 1..Len(S.node.pool) : TxId(S.node.pool[i].tx) = id
      unknownTxids == SelectSeq(m.txids, LAMBDA id : ~known(id))
  IN IF unknownTxids = <<>> THEN S
     ELSE [S EXCEPT !.out = Append(@, GetTx(unknownTxids))]

\* getTxs
GetTxsAt(S, m) ==
  LET P == S.node.pool
      has(id) == \E i \in 1..Len(P) : TxId(P[i].tx) = id
      get(id) == P[CHOOSE i \in 1..Len(P) : TxId(P[i].tx) = id].tx
      asked == SelectSeq(m.txids, has)
  IN [S EXCEPT !.out = Append(@, Txs([i \in 1..Len(asked) |-> get(asked[i])]))]

\* onNewTxs from the gettx response on
OnTxsAt(S, m) ==
  Once(ingestTxsAt(S.node, m.txs, <<S.node.pool, S.node.pendingUTxOuts>>, <<>>), LAMBDA r :
    [S EXCEPT !.node.pool = r.P[1],
              !.node.pendingUTxOuts = r.P[2],
              !.out = IF r.valid # <<>> THEN broadcast(@, TxInv(r.valid)) ELSE @])

\* ------------------------------------------------------------- actions
\* blocks a node mines at most on top of genesis
NetMaxHeight == 3
\* miners started after the connection is made
MaxMinedAfter == 1
\* pending transactions of a node
NetMaxPool == 1

\* a message of the given type is taken from the socket of n and handled
Receive(n, type, Handler(_, _)) ==
  /\ wire[n] # <<>>
  /\ Head(wire[n]).type = type
  /\ \E S \in {Handler([node |-> nodes[n], ing |-> ingest[n], out |-> <<>>], Head(wire[n]))} :
        /\ nodes' = [nodes EXCEPT ![n] = S.node]
        /\ ingest' = [ingest EXCEPT ![n] = S.ing]
        /\ wire' = [wire EXCEPT ![n] = Tail(@), ![Other(n)] = @ \o S.out]
  /\ UNCHANGED <<net, vars, xvars, qvars, mvars>>

OnBlockInv(n) == Receive(n, "blockinv", OnBlockInvAt)
OnGetBlock(n) == Receive(n, "getblock", GetBlockAt)
OnGetBatch(n) == Receive(n, "getbatch", GetBlockAt)
OnBlocks(n) == Receive(n, "blocks", OnBlocksAt)
OnTxInv(n) == Receive(n, "txinv", OnTxInvAt)
OnGetTx(n) == Receive(n, "gettx", GetTxsAt)
OnTxs(n) == Receive(n, "txs", OnTxsAt)

\* Server.connect by the node init and the connection event at the other
\* node: each side runs the handler of onConnect. A txinv without txids is
\* left out: its handler returns at once ("unknownTxids.length === 0"). The
\* connection is made while no miner is searching.
Connect(init) ==
  /\ ~net.connected
  /\ \A n \in Nodes : nodes[n].mining.st = "idle"
  /\ wire' = [n \in Nodes |->
                <<BlockInv(nodes[Other(n)].tip)>>
                \o (IF nodes[Other(n)].pool = <<>> THEN <<>>
                    ELSE <<TxInv(PoolKeys(nodes[Other(n)].pool))>>)]
  /\ net' = [net EXCEPT !.connected = TRUE, !.atConnect = nodes]
  /\ UNCHANGED <<nodes, ingest, vars, xvars, qvars, mvars>>

\* mineAsync / submitMine up to the start of the miner
NetMineAsync(n) ==
  /\ nodes[n].mining.st = "idle"
  /\ nodes[n].tip.height < NetMaxHeight
  /\ net.connected => net.minedAfter < MaxMinedAfter
  /\ \A i \in 1..Len(nodes[n].pool) : AllInputsFound(nodes[n].uTxOuts, nodes[n].pool[i].tx)
  /\ nodes' = [nodes EXCEPT ![n].mining =
                 [st |-> "searching", block |-> generateBlockAt(nodes[n])]]
  /\ net' = [net EXCEPT !.minedAfter = IF net.connected THEN @ + 1 ELSE @]
  /\ UNCHANGED <<wire, ingest, vars, xvars, qvars, mvars>>

\* the miner of n resolves with its block: tryAccept calls onNewBlock
NetMinerFound(n) ==
  /\ nodes[n].mining.st = "searching"
  /\ LET nd    == [nodes[n] EXCEPT !.mining = [st |-> "idle", block |-> NoBlock]]
         block == [nodes[n].mining.block EXCEPT !.nonce = nodes[n].mining.block.difficulty]
         skip  == \/ block \in nd.blocks
                  \/ nd.tip.height > block.height
                  \/ ~StoredAt(nd, block.prev)
         r     == IF skip THEN [ok |-> FALSE, node |-> nd]
                  ELSE acceptAt(nd, <<block>>, BlockAt(nd, <<>>, block.prev))
     IN /\ nodes' = [nodes EXCEPT ![n] = r.node]
        /\ wire' = IF r.ok /\ net.connected
                   THEN [wire EXCEPT ![Other(n)] = broadcast(@, BlockInv(block))]
                   ELSE wire
  /\ UNCHANGED <<net, ingest, vars, xvars, qvars, mvars>>

\* the miner of n sees stop and resolves with null
NetMinerCancelled(n) ==
  /\ nodes[n].mining.st = "stopping"
  /\ nodes' = [nodes EXCEPT ![n].mining = [st |-> "idle", block |-> NoBlock]]
  /\ UNCHANGED <<net, wire, ingest, vars, xvars, qvars, mvars>>

\* send(to, amount) at node n
NetSend(n, amount) ==
  LET nd == nodes[n]
      r  == buildSendAt(nd, nodes[Other(n)].account, amount)
      P  == PoolAdd(<<nd.pool, nd.pendingUTxOuts>>,
                    [tx |-> r.tx, fees |-> InAmount(nd.uTxOuts, r.tx.inputs) - outputValue(r.tx)])
  IN /\ ~net.sent
     /\ r.ok
     /\ Len(P[1]) <= NetMaxPool
     /\ nodes' = [nodes EXCEPT ![n].pool = P[1], ![n].pendingUTxOuts = P[2]]
     /\ wire' = IF net.connected
                THEN [wire EXCEPT ![Other(n)] = broadcast(@, TxInv(<<TxId(r.tx)>>))]
                ELSE wire
     /\ net' = [net EXCEPT !.sent = TRUE]
     /\ UNCHANGED <<ingest, vars, xvars, qvars, mvars>>

NetNext ==
  \/ \E n \in Nodes : OnBlockInv(n)
  \/ \E n \in Nodes : OnGetBlock(n)
  \/ \E n \in Nodes : OnGetBatch(n)
  \/ \E n \in Nodes : OnBlocks(n)
  \/ \E n \in Nodes : OnTxInv(n)
  \/ \E n \in Nodes : OnGetTx(n)
  \/ \E n \in Nodes : OnTxs(n)
  \/ \E init \in Nodes : Connect(init)
  \/ \E n \in Nodes : NetMineAsync(n)
  \/ \E n \in Nodes : NetMinerFound(n)
  \/ \E n \in Nodes : NetMinerCancelled(n)
  \/ NetSend("A", 100)

NetSpec == Init /\ [][NetNext]_netvars

\* No message is lost and none times out: a message on a socket is handled.
NetFairSpec ==
  /\ NetSpec
  /\ \A n \in Nodes :
       WF_netvars(\/ OnBlockInv(n) \/ OnGetBlock(n) \/ OnGetBatch(n) \/ OnBlocks(n)
                  \/ OnTxInv(n) \/ OnGetTx(n) \/ OnTxs(n))

\* ------------------------------------------------- two-node predicates
\* the run is connected and no miner was started since
Calm ==
  /\ net.connected
  /\ net.minedAfter = 0

\* no message in flight, no blockinv task
Quiet ==
  /\ \A n \in Nodes : wire[n] = <<>>
  /\ \A n \in Nodes : ingest[n] = IngestIdle

SameChain ==
  /\ nodes["B"].tip = nodes["A"].tip
  /\ nodes["B"].blocks = nodes["A"].blocks

\* C15 -- Catch-up sync: B at genesis and A with genesis plus n >= 1 blocks
\* are connected and no message is lost: B eventually has A's tip and the
\* n + 1 blocks of A's chain, for n = 1 and for n > 1.
CatchUpSync ==
  (Calm /\ net.atConnect["B"].tip = GENESIS_BLOCK
        /\ net.atConnect["A"].tip.height >= 1)
    ~> (~Calm \/ (/\ SameChain
                  /\ nodes["B"].tip = net.atConnect["A"].tip
                  /\ Cardinality(nodes["B"].blocks) = net.atConnect["A"].tip.height + 1))

\* B has caught up with the three blocks of A by gap-fill
CaughtUpByGapFill ==
  /\ Calm /\ Quiet
  /\ net.atConnect["B"].tip = GENESIS_BLOCK
  /\ net.atConnect["A"].tip.height = 3
  /\ nodes["B"].tip = net.atConnect["A"].tip
  /\ Cardinality(nodes["B"].blocks) = 4

\* A holds a branch of two blocks and B one of three when they are connected
TwoAgainstThree ==
  /\ net.atConnect["A"].tip.height = 2
  /\ net.atConnect["B"].tip.height = 3
  /\ net.atConnect["A"].blocks \cap net.atConnect["B"].blocks = {GENESIS_BLOCK}

OnBranchOfB ==
  \A n \in Nodes :
     /\ nodes[n].tip = net.atConnect["B"].tip
     /\ nodes[n].blocks = net.atConnect["B"].blocks
     /\ Cardinality(nodes[n].blocks) = 4

\* C16 -- Fork preference: A with a branch of two blocks and B with an
\* independently mined branch of three blocks of the same difficulty are
\* connected: B never replaces its branch, and eventually and for good both
\* tips are B's third block and both chains have four blocks.
ForkPreference ==
  /\ []((Calm /\ TwoAgainstThree) => nodes["B"].tip = net.atConnect["B"].tip)
  /\ (Calm /\ TwoAgainstThree) ~> [](~Calm \/ OnBranchOfB)

\* both nodes are on the branch of B and nothing is in flight
ForkResolved == Calm /\ TwoAgainstThree /\ Quiet /\ OnBranchOfB

\* the tip of n is announced to its peer, whose tip is the parent of it
TipOffered(n) ==
  /\ net.connected
  /\ nodes[n].tip.prev = Hash(nodes[Other(n)].tip)
  /\ \E i \in 1..Len(wire[Other(n)]) : wire[Other(n)][i] = BlockInv(nodes[n].tip)

MinedBlocksQueued ==
  [][\A n \in Nodes :
       (/\ nodes[n].mining.st = "searching"
        /\ nodes'[n].mining.st = "idle"
        /\ nodes'[n].tip # nodes[n].tip) => ingest[n].at = "none"]_netvars

\* C18 -- Mempool sync on connect: B at genesis is connected to A, which is
\* any number of blocks ahead; once nothing is in flight any more, every
\* transaction that was pending at A when the connection was made is
\* pending at B.
MempoolSynced ==
  (/\ Calm /\ Quiet
   /\ net.atConnect["B"].tip = GENESIS_BLOCK
   /\ net.atConnect["A"].tip.height >= 1)
    => \A i \in 1..Len(net.atConnect["A"].pool) :
          \E j \in 1..Len(nodes["B"].pool) :
             TxId(nodes["B"].pool[j].tx) = TxId(net.atConnect["A"].pool[i].tx)

\* ================================= one inventory in two arrival orders
\* the blocks of two branches on genesis, mined by the keys "x" and "y"
MaxBranch == 2
\* blockinv messages a node is sent
MaxOffers == 2

RECURSIVE BranchBlock(_, _)
BranchBlock(k, h) ==
  IF h = 0 THEN GENESIS_BLOCK ELSE BlockOn(BranchBlock(k, h - 1), k, <<>>)

Inventory == {BranchBlock(k, h) : k \in {"x", "y"}, h \in 1..MaxBranch}

\* a peer that stores the branch up to b
Holder(b) ==
  [NodeNew("A") EXCEPT
     !.blocks = {BranchBlock(coinbase(b).outputs[1].publicKey, h) : h \in 0..b.height}]

\* the blockinv task of S runs to its end, the peer answering every getblock
\* request from its store
RECURSIVE Served(_, _)
Served(S, peer) ==
  IF S.ing.at = "none" THEN S
  ELSE Once(GetBlockAt([node |-> peer, ing |-> IngestIdle, out |-> <<>>],
                       S.out[Len(S.out)]).out[1],
            LAMBDA response :
              Once(OnBlocksAt([S EXCEPT !.out = <<>>], response),
                   LAMBDA T : Served(T, peer)))

\* a peer that holds b announces it to node n, which is not connected to
\* the other node
Offer(n, b) ==
  /\ ~net.connected
  /\ Len(net.offered[n]) < MaxOffers
  /\ \E S \in {Served(OnBlockInvAt([node |-> nodes[n], ing |-> ingest[n], out |-> <<>>],
                                   BlockInv(b)), Holder(b))} :
        nodes' = [nodes EXCEPT ![n] = S.node]
  /\ net' = [net EXCEPT !.offered[n] = Append(@, b)]
  /\ UNCHANGED <<wire, ingest, vars, xvars, qvars, mvars>>

OfferNext == \E n \in Nodes : \E b \in Inventory : Offer(n, b)

OfferSpec == Init /\ [][OfferNext]_netvars

\* C14 -- Reorg determinism: two nodes started from genesis that were offered
\* the same set of valid blocks, in whatever order, hold the same tip.
SameOffersSameTip ==
  SeqToSet(net.offered["A"]) = SeqToSet(net.offered["B"])
    => nodes["A"].tip = nodes["B"].tip

\* ============================================== the miner and the tip
\* C21 -- Commit cancels the miner: a miner that is searching works on a
\* candidate built on the current tip; a commit that changes the tip leaves
\* no miner searching (the miner running at that moment found the block
\* itself or is told to stop), and a miner told to stop ends with null: the
\* step in which it finishes changes neither the store nor the tip. A miner
\* started afterwards builds on the new tip. (mineAsync while the cancelled
\* miner has not yet finished returns that miner and builds no candidate.)
CommitCancelsMiner ==
  /\ [](\A n \in Nodes :
          nodes[n].mining.st = "searching" =>
            /\ nodes[n].mining.block.prev = Hash(nodes[n].tip)
            /\ nodes[n].mining.block.height = nodes[n].tip.height + 1)
  /\ [][\A n \in Nodes :
          /\ nodes'[n].tip # nodes[n].tip => nodes'[n].mining.st # "searching"
          /\ (nodes[n].mining.st = "stopping" /\ nodes'[n].mining # nodes[n].mining) =>
               /\ nodes'[n].mining.st = "idle"
               /\ nodes'[n].tip = nodes[n].tip
               /\ nodes'[n].blocks = nodes[n].blocks]_netvars

\* a node that was mining has taken over a block of its peer, and its miner
\* is told to stop
CancelledByIngest ==
  \E n \in Nodes :
     /\ net.connected
     /\ nodes[n].mining.st = "stopping"
     /\ nodes[n].tip # net.atConnect[n].tip
     /\ nodes[n].tip \in net.atConnect[Other(n)].blocks

\* C22 -- Mining result is the tip: when the miner of the node resolves with
\* its block B, B is stored, B is the tip, and B stands one above the tip it
\* was built on.
MinedBlockIsTip ==
  [][(mining.st = "searching" /\ mining'.st = "idle") =>
        LET B == [mining.block EXCEPT !.nonce = mining.block.difficulty]
        IN /\ B \in blocks'
           /\ tip' = B
           /\ B.prev = Hash(tip)
           /\ B.height = tip.height + 1]_vars

\* C30 -- Future-drift bound: every block of an accepted segment, the blocks
\* fetched by gap-fill as well as the announced one, has a timestamp of at
\* most now + 120000 ms; the store holds no block further in the future.
FutureDriftBound ==
  \A b \in blocks : b.ts <= Now + MAX_FUTURE_DRIFT_IN_MILLS

\* ====================================================== Server (p2p)
\* The address the server listens on and an address of another node.
Self == "S"
Addresses == {Self, "X"}

\* sockets the server makes or accepts
MaxSocks == 3

\* while (... this.peers.length < 8 ...) in tryConnectAnother
PeerTarget == 8

\* the fields a handler of the server works on
Srv == [socks |-> socks, peers |-> peers, known |-> knownAddresses,
        stopping |-> stopping]

Sock(address, ready, far, by) ==
  [address |-> address, listenAddress |-> "none", ready |-> ready, far |-> far,
   by |-> by, awaited |-> FALSE, disc |-> FALSE, mate |-> 0, inbox |-> <<>>]

Frame(type, addrs) == [type |-> type, addrs |-> addrs]

\* Set.add for each address of a getpeers response
RECURSIVE addAll(_, _)
addAll(known, addrs) ==
  IF addrs = <<>> THEN known
  ELSE addAll(IF \E i \in 1..Len(known) : known[i] = Head(addrs)
              THEN known ELSE Append(known, Head(addrs)),
              Tail(addrs))

\* this.peers.filter(p => p !== peer)
without(ps, s) == SelectSeq(ps, LAMBDA p : p # s)

\* Server.connect up to the return of the promise: the socket is made and
\* setupSocket puts the peer into the list
dial(T, address, by) ==
  LET s == [Sock(address, "connecting", IF address = Self THEN "self" ELSE "node", by)
              EXCEPT !.awaited = TRUE]
  IN [T EXCEPT !.socks = Append(@, s), !.peers = Append(@, Len(T.socks) + 1)]

\* the loop dials whatever the flag says
mayDialAlways(flag) == TRUE

\* !this.stopping
mayDial(flag) == ~flag

\* tryConnectAnother up to its await: addresses are popped until one is
\* dialled that no peer has
RECURSIVE tryConnectAnother(_)
tryConnectAnother(T) ==
  IF ~mayDial(T.stopping) \/ ~(Len(T.peers) < PeerTarget) \/ T.known = <<>> THEN T
  ELSE LET address == Head(T.known)
           popped  == [T EXCEPT !.known = Tail(@)]
       IN IF \E i \in 1..Len(T.peers) : T.socks[T.peers[i]].address = address
          THEN tryConnectAnother(popped)
          ELSE dial(popped, address, "recovery")

\* the 'close' event of socket s: the handler of setupSocket takes the peer
\* out of the list and calls tryConnectAnother; then the promise of connect
\* resolves with null, and a tryConnectAnother that awaits it goes on. Of a
\* closed socket nothing is kept: its pending request can only time out.
onClose(T, s) ==
  LET gone   == [T EXCEPT !.peers = without(@, s),
                          !.socks[s] = Sock("closed", "closed", "closed", "closed")]
      first  == tryConnectAnother(gone)
  IN IF T.socks[s].awaited /\ T.socks[s].by = "recovery"
     THEN tryConnectAnother(first)
     ELSE first

\* the history of a step that is not about one socket
Logged(op, s) ==
  [op |-> op, sock |-> s, picked |-> {}, sent |-> {}, self |-> NoSelfDial]

\* the fields of T are written back.
\* The history keeps the peers and known addresses as they were when the
\* server dialled its own address, as long as every step since was about a
\* socket of that connection.
Becomes(T, op, s) ==
  /\ socks' = T.socks
  /\ peers' = T.peers
  /\ knownAddresses' = T.known
  /\ stopping' = T.stopping
  /\ srvLog' = [Logged(op, s) EXCEPT !.self =
                  IF s > Len(socks)
                  THEN IF T.socks[s].far # "self" THEN NoSelfDial
                       ELSE IF op = "dial"
                            THEN [on |-> TRUE, known |-> knownAddresses, peers |-> peers]
                            ELSE srvLog.self
                  ELSE IF socks[s].far = "self" THEN srvLog.self ELSE NoSelfDial]

\* what a step of the server leaves alone

\* a step that may make sockets, no more than MaxSocks existing
Bounded(T, op, s) == Len(T.socks) <= MaxSocks /\ Becomes(T, op, s)

beside == <<vars, qvars, mvars, netvars, rvars, dvars, cvars>>

\* ----------------------------------------------------- connections
\* Node.addPeer -> Server.connect(address), while at most max sockets exist
AddPeer(address, max) ==
  /\ ~stopping
  /\ Len(socks) < max
  /\ Becomes(dial(Srv, address, "user"), "dial", Len(socks) + 1)
  /\ UNCHANGED <<refresh, beside>>

\* wss 'connection' for a socket of another node: setupSocket, connectHandler,
\* discoverNewPeersFrom (a getpeers request)
Accept(max) ==
  /\ ~stopping
  /\ Len(socks) < max
  /\ LET s == [Sock("remote", "open", "node", "accept") EXCEPT !.disc = TRUE]
     IN Becomes([Srv EXCEPT !.socks = Append(@, s), !.peers = Append(@, Len(socks) + 1)],
                "accept", Len(socks) + 1)
  /\ UNCHANGED <<refresh, beside>>

\* wss 'connection' for the socket o the server has dialled to its own
\* address: the accepted end i sends its getpeers request to o
SelfAccept(o) ==
  /\ ~stopping
  /\ socks[o].far = "self" /\ socks[o].ready = "connecting" /\ socks[o].mate = 0
  /\ LET i == [Sock("remote", "open", "self", "accept") EXCEPT !.disc = TRUE, !.mate = o]
     IN Bounded([Srv EXCEPT !.socks = Append([@ EXCEPT ![o].mate = Len(socks) + 1,
                                                        ![o].inbox = Append(@, Frame("getpeers", <<>>))], i),
                            !.peers = Append(@, Len(socks) + 1)],
                "accept", Len(socks) + 1)
  /\ UNCHANGED <<refresh, beside>>

\* socket 'open' of a dialled socket: the promise resolves with the peer,
\* listenAddress is the dialled address, nodeinfo is sent, connectHandler
\* runs and discoverNewPeersFrom sends a getpeers request
DialOpen(o) ==
  /\ socks[o].ready = "connecting"
  /\ socks[o].far = "self" => socks[o].mate # 0
  /\ LET opened == [socks EXCEPT ![o].ready = "open",
                                 ![o].listenAddress = socks[o].address,
                                 ![o].awaited = FALSE,
                                 ![o].disc = TRUE]
         i == socks[o].mate
     IN Becomes([Srv EXCEPT !.socks =
                   IF i = 0 THEN opened
                   ELSE [opened EXCEPT ![i].inbox =
                           @ \o <<Frame("nodeinfo", <<>>), Frame("getpeers", <<>>)>>]],
                "open", o)
  /\ UNCHANGED <<refresh, beside>>

\* a dialled socket fails ('error', 'close') or is closed by the timeout of
\* connect before it is open
DialFail(o) ==
  /\ socks[o].ready = "connecting"
  /\ socks[o].far = "node"
  /\ Bounded(onClose(Srv, o), "close", o)
  /\ UNCHANGED <<refresh, beside>>

\* ---------------------------------------------------------- frames
\* the answer of the getpeers handler on socket s: the listen addresses of
\* the peers, without the unknown ones and that of the asking peer
peersAnswer(T, s) ==
  LET known(p) == /\ T.socks[p].listenAddress # "none"
                  /\ T.socks[p].listenAddress # T.socks[s].listenAddress
      listed == SelectSeq(T.peers, known)
  IN [k \in 1..Len(listed) |-> T.socks[listed[k]].listenAddress]

\* handleNodeInfo for the node id of the server itself: the socket is
\* closed (the close frame goes to the far end) and the peer leaves the list
rejectSelf(T, s) ==
  [T EXCEPT !.socks[s].ready = "closing",
            !.socks[T.socks[s].mate].inbox = Append(@, Frame("close", <<>>)),
            !.peers = without(@, s)]

\* the answer is sent if the socket is open
answerPeers(T, s) ==
  IF T.socks[s].ready = "open"
  THEN [T EXCEPT !.socks[T.socks[s].mate].inbox = Append(@, Frame("response", peersAnswer(T, s)))]
  ELSE T

\* the callback of the pending request: discoverNewPeersFrom adds the
\* addresses
takeAnswer(T, s, addrs) ==
  IF T.socks[s].disc
  THEN [T EXCEPT !.known = addAll(@, addrs), !.socks[s].disc = FALSE]
  ELSE T

\* the close frame arrives: an open socket answers it with its own close
\* frame; the socket is closed
closeFrame(T, s) ==
  onClose(IF T.socks[s].ready = "open"
          THEN [T EXCEPT !.socks[T.socks[s].mate].inbox = Append(@, Frame("close", <<>>))]
          ELSE T, s)

\* ws 'message' on a socket of the connection of the server with itself.
\* (The blockinv and txinv frames of connectHandler name the own tip and the
\* own pending transactions: the handlers of the node return at once.)
Deliver(s) ==
  /\ socks[s].far = "self"
  /\ socks[s].ready \in {"open", "closing"}
  /\ socks[s].inbox # <<>>
  /\ LET m == Head(socks[s].inbox)
         T == [Srv EXCEPT !.socks[s].inbox = Tail(@)]
     IN Bounded(CASE m.type = "nodeinfo" -> rejectSelf(T, s)
                  [] m.type = "getpeers" -> answerPeers(T, s)
                  [] m.type = "response" -> takeAnswer(T, s, m.addrs)
                  [] OTHER -> closeFrame(T, s),
                IF m.type = "close" THEN "close" ELSE "message", s)
  /\ UNCHANGED <<refresh, beside>>

\* the getpeers request of discoverNewPeersFrom times out after 3000 ms: the
\* catch gives no address
RequestTimeout(s) ==
  /\ socks[s].disc
  /\ Bounded([Srv EXCEPT !.socks[s].disc = FALSE], "timeout", s)
  /\ UNCHANGED <<refresh, beside>>

\* ------------------------------------------ the far end is another node
\* nodeinfo of another node with a listen address
FarNodeInfo(s, listen) ==
  /\ socks[s].far = "node" /\ socks[s].ready = "open" /\ socks[s].by = "accept"
  /\ socks[s].listenAddress = "none"
  /\ Bounded([Srv EXCEPT !.socks[s].listenAddress = listen], "message", s)
  /\ UNCHANGED <<refresh, beside>>

\* the response to the getpeers request of discoverNewPeersFrom
FarResponse(s, addrs) ==
  /\ socks[s].far = "node" /\ socks[s].ready = "open"
  /\ socks[s].disc
  /\ Bounded(takeAnswer(Srv, s, addrs), "message", s)
  /\ UNCHANGED <<refresh, beside>>

\* the far end closes, or the server has terminated the socket: 'close'
FarClose(s) ==
  /\ \/ socks[s].far = "node" /\ socks[s].ready = "open"
     \/ socks[s].ready = "terminated"
  /\ Bounded(onClose(Srv, s), "close", s)
  /\ UNCHANGED <<refresh, beside>>

\* ------------------------------------------------------------ refresh
\* randomPeers(2): all peers if there are at most two, else two of them
randomPeers2(ps) ==
  IF Len(ps) <= 2 THEN {ps}
  ELSE {<<ps[i], ps[j]>> : i, j \in 1..Len(ps)} \ {<<ps[i], ps[i]>> : i \in 1..Len(ps)}

\* the round goes on with the peers in round: the request to the first is
\* sent (ws.send throws on a connecting socket: the round ends and nothing
\* arms the timer again), or the round is over and scheduleRefreshAddresses
\* arms the timer
roundOn(round) ==
  IF round = <<>> THEN [handle |-> TRUE, armed |-> TRUE, round |-> <<>>]
  ELSE IF socks[round[1]].ready = "connecting"
       THEN [handle |-> refresh.handle, armed |-> FALSE, round |-> <<>>]
       ELSE [handle |-> refresh.handle, armed |-> FALSE, round |-> round]

\* the refresh timer fires: refreshAddresses
TimerFires ==
  /\ refresh.armed
  /\ \E sel \in randomPeers2(peers) : refresh' = roundOn(sel)
  /\ srvLog' = Logged("timer", 0)
  /\ UNCHANGED <<socks, peers, knownAddresses, stopping, beside>>

\* the getpeers request of the round settles, with the addresses of a
\* response or, after the timeout or on a closed socket, with none
RoundSettle(addrs) ==
  /\ refresh.round # <<>>
  /\ addrs # <<>> => socks[refresh.round[1]].ready = "open"
  /\ knownAddresses' = addAll(knownAddresses, addrs)
  /\ refresh' = roundOn(Tail(refresh.round))
  /\ srvLog' = Logged("round", refresh.round[1])
  /\ UNCHANGED <<socks, peers, stopping, beside>>

\* ------------------------------------------------------------- close
\* clearTimeout(this.refreshInterval); this.refreshInterval = null: the
\* timer the handle names is cancelled if it has not fired
clearTimeout(r) == IF r.handle THEN [r EXCEPT !.handle = FALSE, !.armed = FALSE] ELSE r

\* Server.close: every peer is terminated and the list emptied
Close ==
  /\ ~stopping
  /\ socks' = [s \in 1..Len(socks) |->
                 IF \E k \in 1..Len(peers) : peers[k] = s
                 THEN [socks[s] EXCEPT !.ready = "terminated", !.inbox = <<>>]
                 ELSE socks[s]]
  /\ peers' = <<>>
  /\ stopping' = TRUE
  /\ refresh' = clearTimeout(refresh)
  /\ srvLog' = Logged("stop", 0)
  /\ UNCHANGED <<knownAddresses, beside>>

ServerNext ==
  \/ \E a \in Addresses : AddPeer(a, MaxSocks)
  \/ Accept(MaxSocks)
  \/ \E s \in 1..Len(socks) : SelfAccept(s)
  \/ \E s \in 1..Len(socks) : DialOpen(s)
  \/ \E s \in 1..Len(socks) : DialFail(s)
  \/ \E s \in 1..Len(socks) : Deliver(s)
  \/ \E s \in 1..Len(socks) : RequestTimeout(s)
  \/ \E s \in 1..Len(socks) : FarNodeInfo(s, "X")
  \/ \E s \in 1..Len(socks) : FarResponse(s, <<"X">>)
  \/ \E s \in 1..Len(socks) : FarClose(s)
  \/ TimerFires
  \/ RoundSettle(<<>>)
  \/ RoundSettle(<<"X">>)
  \/ Close

ServerSpec == Init /\ [][ServerNext]_svars

\* C24 -- Self-connect rejection: the server has dialled its own address and
\* the nodeinfo with its own node id has closed the connection. Both sockets
\* are closed, nothing else has happened since the dial: the peer list and
\* the known addresses are what they were before the dial, and no address
\* has been dialled since.
SelfConnectRejected ==
  (/\ srvLog.self.on
   /\ srvLog.op = "close"
   /\ \A s \in 1..Len(socks) : socks[s].far # "self")
    => /\ peers = srvLog.self.peers
       /\ knownAddresses = srvLog.self.known
       /\ \A s \in 1..Len(socks) :
            socks[s].ready = "connecting" =>
              \E i \in DOMAIN srvLog.self.peers : srvLog.self.peers[i] = s

\* C27 -- No dialing after shutdown: in no step that leaves the shutdown flag
\* set does the disconnect recovery loop make a socket, whatever sockets
\* close and whatever addresses are known.
NoDialAfterShutdown ==
  [][stopping' =>
       \A s \in 1..Len(socks') :
         socks'[s].by = "recovery" => (s <= Len(socks) /\ socks[s].by = "recovery")]_svars

\* a socket that close() terminated has closed, its handler has run the
\* recovery loop with an address known, and nothing was dialled
RecoveryLoopAfterShutdown ==
  /\ stopping
  /\ srvLog.op = "close"
  /\ knownAddresses # <<>>
  /\ peers = <<>>

\* C26 -- Shutdown cancels peer refresh: when close() has run the peer list
\* is empty, and from then on no refresh timer is armed, also when a refresh
\* round was in flight at the time of close().
RefreshCancelled ==
  stopping => /\ ~refresh.armed
              /\ srvLog.op = "stop" => peers = <<>>

\* ---------------------------------------------------------- broadcast
\* the sockets of a server that broadcasts
MaxFanout == 9

\* the peers one broadcast picks at most
BroadcastPeers == 8

\* randomPeers(num): every peer if there are no more than num, else num
\* peers, none twice (a peer already picked is passed over)
randomPeers(ps, num) ==
  IF Len(ps) <= num THEN {SeqToSet(ps)}
  ELSE {S \in SUBSET SeqToSet(ps) : Cardinality(S) = num}

\* Server.broadcast: the picked peers whose socket is OPEN are sent the
\* message
Broadcast ==
  /\ \E sel \in (IF Len(peers) < BroadcastPeers THEN {SeqToSet(peers)}
                 ELSE randomPeers(peers, BroadcastPeers)) :
       srvLog' = [Logged("broadcast", 0) EXCEPT
                    !.picked = sel,
                    !.sent = {p \in sel : socks[p].ready = "open"}]
  /\ UNCHANGED <<socks, peers, knownAddresses, stopping, refresh, beside>>

FanoutNext ==
  \/ Accept(MaxFanout)
  \/ AddPeer("X", MaxFanout)
  \/ \E s \in 1..Len(socks) : DialOpen(s)
  \/ Broadcast

FanoutSpec == Init /\ [][FanoutNext]_svars

\* C28 -- Broadcast fanout: a broadcast sends the message to min(|peers|, 8)
\* peers, and to every peer when there are fewer than 8.
BroadcastFanout ==
  srvLog.op = "broadcast" =>
    /\ Cardinality(srvLog.sent) = Min(Len(peers), BroadcastPeers)
    /\ Len(peers) < BroadcastPeers => srvLog.sent = SeqToSet(peers)

\* ----------------------------------------------------------- shutdown
\* the node's user starts the miner of a running node
StartMining == ~stopping /\ MineAsync

\* Node.stop: this.server?.close()
Stop == Close

ShutNext ==
  \/ StartMining
  \/ MinerFound
  \/ Accept(MaxSocks)
  \/ \E s \in 1..Len(socks) : FarClose(s)
  \/ Stop

ShutSpec == Init /\ [][ShutNext]_<<vars, svars>>

\* C25 -- Shutdown stops mining: after stop() no miner is searching, and no
\* block is accepted as the tip.
ShutdownStopsMining ==
  /\ [](stopping => mining.st # "searching")
  /\ [][stopping => tip' = tip]_<<vars, svars>>

\* ============================================================ Peer.request
\* the requests made on the peer
MaxRequests == 3

\* the data a response frame may carry
Datas == {"a", "b"}

\* what the steps of the peer leave alone
apart == <<vars, qvars, mvars, netvars, svars, dvars, cvars>>

\* resolve / reject of the promise of a request: a settled promise stays as
\* it is
settled(p, state, value) ==
  IF p.state = "pending" THEN [state |-> state, value |-> value] ELSE p

\* the callback of whatever request is waiting
callbackOfAny(P, id) ==
  IF DOMAIN P = {} THEN 0 ELSE P[CHOOSE i \in DOMAIN P : \A j \in DOMAIN P : i <= j]

\* pendingRequests[message.id]
callbackOf(P, id) == IF id \in DOMAIN P THEN P[id] ELSE 0

\* Peer.request on an open socket: the id is syncId++, waitResponse stores
\* resolve under the id, the timer of 3000 ms is set and the frame is sent
Request ==
  /\ Len(requests) < MaxRequests
  /\ syncId' = syncId + 1
  /\ pendingRequests' = (syncId :> Len(requests) + 1) @@ pendingRequests
  /\ requests' = Append(requests,
                        [id |-> syncId,
                         promise |-> [state |-> "pending", value |-> "none"],
                         timer |-> TRUE, first |-> "none", again |-> FALSE])
  /\ UNCHANGED apart

\* a frame of type response with this id arrives: the callback stored under
\* the id is deleted and called with the message; the promise resolves with
\* the data of the message
Response(id, data) ==
  /\ LET k == callbackOf(pendingRequests, id)
         m == [type |-> "response", id |-> id, data |-> data]
     IN /\ pendingRequests' = [i \in DOMAIN pendingRequests \ {id} |-> pendingRequests[i]]
        /\ requests' =
             [r \in DOMAIN requests |->
                LET q == requests[r]
                    p == IF r = k THEN settled(q.promise, "fulfilled", m.data)
                         ELSE q.promise
                IN IF q.id # id THEN [q EXCEPT !.promise = p]
                   ELSE IF q.timer /\ q.first = "none"
                        THEN [q EXCEPT !.promise = p, !.first = data]
                        ELSE [q EXCEPT !.promise = p, !.again = TRUE]]
  /\ UNCHANGED <<syncId, apart>>

\* the timer of request k fires: reject(new Error('Request timed out'))
Timeout(k) ==
  /\ k \in DOMAIN requests
  /\ requests[k].timer
  /\ requests' = [requests EXCEPT ![k].timer = FALSE,
                                  ![k].promise = settled(@, "rejected", "Request timed out")]
  /\ UNCHANGED <<syncId, pendingRequests, apart>>

RequestNext ==
  \/ Request
  \/ \E id \in 0..MaxRequests, data \in Datas : Response(id, data)
  \/ \E k \in 1..MaxRequests : Timeout(k)

RequestSpec == Init /\ [][RequestNext]_rvars

\* every timer that is set fires
RequestFairSpec == RequestSpec /\ \A k \in 1..MaxRequests : WF_rvars(Timeout(k))

\* C23 -- Request/response correlation: the ids of the requests on a peer
\* increase strictly; a request is pending while its timer is armed and no
\* response with its id has come, fulfilled with the data of the first
\* response with its id that came before the timer fired, and rejected with
\* the timeout error if none came; a settled request never changes, whatever
\* responses come; every request settles.
RequestCorrelation ==
  /\ [](\A i, j \in DOMAIN requests : i < j => requests[i].id < requests[j].id)
  /\ [](\A k \in DOMAIN requests :
          LET r == requests[k]
          IN CASE r.promise.state = "pending" -> r.timer /\ r.first = "none"
               [] r.promise.state = "fulfilled" ->
                    r.first # "none" /\ r.promise.value = r.first
               [] r.promise.state = "rejected" ->
                    ~r.timer /\ r.first = "none" /\ r.promise.value = "Request timed out")
  /\ [][\A k \in DOMAIN requests :
          requests[k].promise.state # "pending" =>
            requests'[k].promise = requests[k].promise]_rvars
  /\ \A k \in 1..MaxRequests :
       (k \in DOMAIN requests) ~> (k \in DOMAIN requests /\ requests[k].promise.state # "pending")

\* one request is fulfilled and a second response with its id has come, one
\* is rejected and a response with its id has come after the timeout
SettledAndAnsweredAgain ==
  /\ \E k \in DOMAIN requests :
       requests[k].promise.state = "fulfilled" /\ requests[k].again
  /\ \E k \in DOMAIN requests :
       requests[k].promise.state = "rejected" /\ requests[k].again

\* ============================================================== difficulty
\* the height of the tip of the chain
MaxChain == 11

\* the milliseconds between a block and its child
Gaps == {5000, 22000}

\* last(tail, n) of the block loop, tail being the block of height h of the
\* chain c: n times to the previous block, no further than the genesis block
RECURSIVE lastIn(_, _, _)
lastIn(c, h, n) == IF n = 0 \/ h = 0 THEN c[h + 1] ELSE lastIn(c, h - 1, n - 1)

\* the difficulty the block loop requires of block, offered as the child of
\* the tip of c
expectedDifficulty(c, block) ==
  LET prev     == c[Len(c)]
      duration == prev.ts - lastIn(Append(c, block), block.height, 10).ts
  IN getExpectedDifficulty(prev, duration)

\* a peer offers a child of the tip with a declared difficulty: the block
\* loop accepts it if the difficulty is the expected one (the other tests
\* of isValidNext pass)
OfferChild(gap, step) ==
  /\ Len(chain) <= MaxChain
  /\ LET prev  == chain[Len(chain)]
         block == [height |-> prev.height + 1, ts |-> prev.ts + gap,
                   difficulty |-> prev.difficulty + step]
         ok    == block.difficulty = expectedDifficulty(chain, block)
     IN /\ block.difficulty >= 1
        /\ chain' = IF ok THEN Append(chain, block) ELSE chain
        /\ verdict' = [offered |-> TRUE, mined |-> FALSE, accepted |-> ok, block |-> block]
  /\ UNCHANGED <<vars, qvars, mvars, netvars, svars, rvars, cvars>>

\* the block one further back than top(n)
topBelow(c, n) == lastIn(c, Len(c) - 1, n + 1)

\* top(n): n times to the previous block from the tip of c
top(c, n) == lastIn(c, Len(c) - 1, n)

\* getCurrentDifficulty on the chain c
currentDifficulty(c) ==
  LET tipOf    == c[Len(c)]
      duration == tipOf.ts - top(c, 9).ts
      expected == BLOCK_GENERATION_TARGET_IN_MILLS * DIFFICULTY_ADJUSTMENT_EVERY_BLOCKS
  IN IF tipOf.height % DIFFICULTY_ADJUSTMENT_EVERY_BLOCKS # 0 THEN tipOf.difficulty
     ELSE IF 2 * duration < expected THEN Min(tipOf.difficulty + 1, 256)
     ELSE IF duration > expected * 2 THEN Max(tipOf.difficulty - 1, 1)
     ELSE tipOf.difficulty

\* generateBlock on the tip of c, the candidate being found gap ms after the
\* tip
generate(c, gap) ==
  [height |-> c[Len(c)].height + 1, ts |-> c[Len(c)].ts + gap,
   difficulty |-> currentDifficulty(c)]

\* the node mines a child of its tip and the tip is still the parent when
\* the miner resolves: onNewBlock validates the block
MineChild(gap) ==
  /\ Len(chain) <= MaxChain
  /\ LET block == generate(chain, gap)
         ok    == block.difficulty = expectedDifficulty(chain, block)
     IN /\ chain' = IF ok THEN Append(chain, block) ELSE chain
        /\ verdict' = [offered |-> FALSE, mined |-> TRUE, accepted |-> ok, block |-> block]
  /\ UNCHANGED <<vars, qvars, mvars, netvars, svars, rvars, cvars>>

DifficultyNext ==
  \/ \E gap \in Gaps, step \in {-1, 0, 1} : OfferChild(gap, step)
  \/ \E gap \in Gaps : MineChild(gap)

DifficultySpec == Init /\ [][DifficultyNext]_dvars

\* the parent of the block last offered
Parent == chain[verdict.block.height]

\* the difficulty of a child of P by the rule with
\* duration = P.timestamp - ancestor(P, 10).timestamp
RetargetRule ==
  LET P        == Parent
      ancestor == chain[Max(P.height - 10, 0) + 1]
      duration == P.ts - ancestor.ts
  IN IF P.height % 10 # 0 THEN P.difficulty
     ELSE IF duration < 50000 THEN Min(P.difficulty + 1, 256)
     ELSE IF duration > 200000 THEN Max(P.difficulty - 1, 1)
     ELSE P.difficulty

\* C29 -- Difficulty retarget: a block offered as the child of P is accepted
\* if and only if its declared difficulty is the one of the rule: that of P
\* when P.height % 10 # 0, else that of P raised by one (256 at most) when
\* duration < 50000, lowered by one (1 at least) when duration > 200000 and
\* unchanged otherwise, where duration = P.timestamp - ancestor(P, 10).timestamp.
DifficultyRetarget ==
  verdict.offered => (verdict.accepted <=> verdict.block.difficulty = RetargetRule)

\* ================================================================== codecs
\* Uint8Array.slice(from, to), the ends clamped to the array
slice(bytes, from, to) ==
  SubSeq(bytes, Min(from, Len(bytes)) + 1, Min(to, Len(bytes)))

\* new Uint8Array(n): n zero bytes
zeros(n) == [i \in 1..n |-> 0]

\* padSuffix (util/common.mts)
padSuffix(bytes, length) ==
  IF Len(bytes) >= length THEN slice(bytes, 0, length)
  ELSE bytes \o zeros(length - Len(bytes))

\* removeDERPadding (util/common.mts): bytes[0] and bytes[1] are undefined
\* past the end, and slice(0, NaN) is empty
removeDERPadding(bytes) ==
  IF Len(bytes) = 0 THEN bytes
  ELSE IF bytes[1] # 48 THEN bytes
  ELSE IF Len(bytes) = 1 THEN <<>>
  ELSE slice(bytes, 0, 2 + bytes[2])

\* A number that is a whole number from 0 to 2^64 is written as four limbs
\* to the base 65536, the most significant first (the first is 65536 for
\* 2^64 itself).
\* the number of bits of a limb
bitLength(a) == CHOOSE k \in 0..17 : a < 2^k /\ (k = 0 \/ a >= 2^(k - 1))

\* Number(bigint): the nearest number with a significand of 53 bits, a tie
\* going to the even one
toNumber(n) ==
  LET s    == IF n[1] >= 32 THEN bitLength(n[1]) - 5 ELSE 0
      unit == 2^s
      q    == n[4] \div unit
      r    == n[4] % unit
      up   == IF 2 * r > unit \/ (2 * r = unit /\ q % 2 = 1) THEN 1 ELSE 0
      d4   == (q + up) * unit
      d3   == n[3] + d4 \div 65536
      d2   == n[2] + d3 \div 65536
      d1   == n[1] + d2 \div 65536
  IN <<d1, d2 % 65536, d3 % 65536, d4 % 65536>>

\* DataView.setBigUint64(0, BigInt(n), false): the value modulo 2^64 in 8
\* bytes, big-endian
setBigUint64(n) ==
  <<(n[1] % 65536) \div 256, n[1] % 256, n[2] \div 256, n[2] % 256,
    n[3] \div 256, n[3] % 256, n[4] \div 256, n[4] % 256>>

\* Number(DataView.getBigUint64(0, false))
getBigUint64(b) ==
  toNumber(<<b[1] * 256 + b[2], b[3] * 256 + b[4], b[5] * 256 + b[6], b[7] * 256 + b[8]>>)

\* DataView.setUint32(0, v, false) and getUint32(0, false), v below 2^31
setUint32(v) == <<(v \div 16777216) % 256, (v \div 65536) % 256, (v \div 256) % 256, v % 256>>

getUint32(b) == b[1] * 16777216 + b[2] * 65536 + b[3] * 256 + b[4]

\* sha256, taken to be free of collisions
sha256(bytes) == [sha256 |-> bytes]

\* hexBytes and hex (util/crypto.mts): a string of hex digits is the
\* sequence of the values of its digits
hexBytes(str) == [i \in 1..(Len(str) \div 2) |-> str[2 * i - 1] * 16 + str[2 * i]]

hex(bytes) == [i \in 1..(2 * Len(bytes)) |->
                 IF i % 2 = 1 THEN bytes[(i + 1) \div 2] \div 16 ELSE bytes[i \div 2] % 16]

\* ----------------------------------------------------------------- Block
\* Block.serialize: difficultyBuffer[0] = block.difficulty keeps the value
\* modulo 256
serializeBlock(block) ==
  setBigUint64(block.height) \o setBigUint64(block.ts) \o block.prev
    \o <<block.difficulty % 256>> \o block.nonce \o block.txs

\* Block.deserialize: throws on fewer than 48 bytes, and the DataView of the
\* difficulty on fewer than 49
deserializeBlock(bytes) ==
  IF Len(bytes) < 49 THEN [ok |-> FALSE]
  ELSE [ok |-> TRUE,
        block |-> [height     |-> getBigUint64(slice(bytes, 0, 8)),
                   ts         |-> getBigUint64(slice(bytes, 8, 16)),
                   prev       |-> slice(bytes, 16, 48),
                   difficulty |-> bytes[49],
                   nonce      |-> slice(bytes, 49, 81),
                   txs        |-> slice(bytes, 81, Len(bytes))]]

\* Block.hash
hashOf(block) == sha256(serializeBlock(block))

\* ----------------------------------------------------------- Transaction
\* new Input(tx, index, signature)
Input(tx, index, signature) ==
  [txid |-> tx, index |-> index, signature |-> padSuffix(signature, 72)]

\* Input.serialize and Input.serializeUnsigned
serializeInput(input) ==
  hexBytes(input.txid) \o setUint32(input.index) \o input.signature

serializeInputUnsigned(input) == hexBytes(input.txid) \o setUint32(input.index)

\* Input.deserialize
deserializeInput(data) ==
  Input(hex(slice(data, 0, 32)), getUint32(slice(data, 32, 36)),
        removeDERPadding(slice(data, 36, Len(data))))

\* Output.serialize and Output.deserialize
serializeOutput(output) == setBigUint64(output.amount) \o output.publicKey

deserializeOutput(data) ==
  [amount |-> getBigUint64(slice(data, 0, 8)), publicKey |-> slice(data, 8, Len(data))]

\* flatMap
RECURSIVE flat(_)
flat(parts) == IF parts = <<>> THEN <<>> ELSE Head(parts) \o flat(Tail(parts))

\* Transaction.serialize and Transaction.serializeUnsigned
serializeTx(tx) ==
  setUint32(Len(tx.inputs)) \o setUint32(Len(tx.outputs))
    \o flat([i \in DOMAIN tx.inputs |-> serializeInput(tx.inputs[i])])
    \o flat([i \in DOMAIN tx.outputs |-> serializeOutput(tx.outputs[i])])

serializeUnsigned(tx) ==
  setUint32(Len(tx.inputs)) \o setUint32(Len(tx.outputs))
    \o flat([i \in DOMAIN tx.inputs |-> serializeInputUnsigned(tx.inputs[i])])
    \o flat([i \in DOMAIN tx.outputs |-> serializeOutput(tx.outputs[i])])

\* Transaction.id
idOf(tx) == sha256(serializeUnsigned(tx))

\* Transaction.deserialize
deserializeTx(data) ==
  LET inputCount  == getUint32(slice(data, 0, 4))
      outputCount == getUint32(slice(data, 4, 8))
      outputsAt   == 8 + inputCount * 108
  IN IF Len(data) # 8 + inputCount * 108 + outputCount * 73 THEN [ok |-> FALSE]
     ELSE [ok |-> TRUE,
           tx |-> [inputs  |-> [i \in 1..inputCount |->
                                  deserializeInput(slice(data, 8 + (i - 1) * 108, 8 + i * 108))],
                   outputs |-> [i \in 1..outputCount |->
                                  deserializeOutput(slice(data, outputsAt + (i - 1) * 73,
                                                          outputsAt + i * 73))]]]

\* ------------------------------------------------------------ the values
\* whole numbers a program can hold: 0, 1, 257, 2^53 - 1, 2^63 and the
\* greatest below 2^64; the timestamp of the genesis block; two amounts
Heights ==
  {n \in {<<0, 0, 0, 0>>, <<0, 0, 0, 1>>, <<0, 0, 0, 257>>, <<31, 65535, 65535, 65535>>,
          <<32768, 0, 0, 0>>, <<65535, 65535, 65535, 63488>>} : toNumber(n) = n}

Timestamps == {n \in {<<0, 407, 20211, 9704>>, <<32768, 0, 0, 0>>} : toNumber(n) = n}

Amounts == {<<0, 1, 10757, 61952>>, <<0, 0, 1525, 57600>>}

\* the difficulties getExpectedDifficulty gives for the child of a stored
\* parent, the parent's difficulty being low or near the cap
ExpectedDifficulties ==
  {getExpectedDifficulty([height |-> 0, difficulty |-> d], duration) :
     d \in {1, 2, 254, 255}, duration \in {0, 100000, 300000}}

\* what the signature slot of an input may carry: nothing, a short and a
\* full DER signature, and miner messages of a coinbase ("The", "01AB...",
\* one of 72 bytes)
Slots ==
  {<<>>,
   <<48, 6, 2, 1, 5, 2, 1, 7>>,
   <<48, 70>> \o [i \in 1..70 |-> i],
   <<84, 104, 101>>,
   <<48, 49>> \o [i \in 1..58 |-> 65],
   [i \in 1..72 |-> 64 + i]}

\* a txid as a string of 64 hex digits
HexIds == {[i \in 1..64 |-> 0], [i \in 1..64 |-> i % 16]}

PublicKeys == {<<4>> \o [i \in 1..64 |-> i]}

\* transactions: a coinbase of a block of some height with a miner message,
\* and a payment of one or two signed inputs
CodecTxs ==
  {[inputs  |-> <<Input([i \in 1..64 |-> 0], h, c)>>,
    outputs |-> <<[amount |-> a, publicKey |-> k]>>] :
     h \in {0, 7}, c \in Slots, a \in Amounts, k \in PublicKeys}
  \cup
  {[inputs  |-> ins,
    outputs |-> <<[amount |-> a, publicKey |-> k], [amount |-> a, publicKey |-> k]>>] :
     ins \in {<<Input(t, 0, c)>> : t \in HexIds, c \in Slots}
             \cup {<<Input(t, 0, c), Input(t, 1, c)>> : t \in HexIds, c \in Slots},
     a \in Amounts, k \in PublicKeys}

CodecBlocks ==
  [height : Heights, ts : Timestamps,
   prev : {zeros(32), [i \in 1..32 |-> (7 * i) % 256]},
   difficulty : ExpectedDifficulties,
   nonce : {[i \in 1..32 |-> 255 - i]},
   txs : {<<>>, <<1, 2, 3>>}]

\* ------------------------------------------------------------ the steps
\* what the steps of the codecs leave alone
nearby == <<vars, qvars, mvars, netvars, svars, rvars, dvars>>

\* block.serialize()
SerializeBlock(block) ==
  /\ codec' = [kind |-> "block", done |-> FALSE, in |-> block,
               bytes |-> serializeBlock(block)]
  /\ UNCHANGED nearby

\* Block.deserialize(bytes)
DeserializeBlock ==
  /\ codec.kind = "block" /\ ~codec.done
  /\ codec' = [kind |-> "block", done |-> TRUE, in |-> codec.in,
               bytes |-> codec.bytes, out |-> deserializeBlock(codec.bytes)]
  /\ UNCHANGED nearby

\* tx.serialize()
SerializeTx(tx) ==
  /\ codec' = [kind |-> "tx", done |-> FALSE, in |-> tx, bytes |-> serializeTx(tx)]
  /\ UNCHANGED nearby

\* Transaction.deserialize(bytes)
DeserializeTx ==
  /\ codec.kind = "tx" /\ ~codec.done
  /\ codec' = [kind |-> "tx", done |-> TRUE, in |-> codec.in,
               bytes |-> codec.bytes, out |-> deserializeTx(codec.bytes)]
  /\ UNCHANGED nearby

CodecNext ==
  \/ \E block \in CodecBlocks : SerializeBlock(block)
  \/ DeserializeBlock
  \/ \E tx \in CodecTxs : SerializeTx(tx)
  \/ DeserializeTx

CodecSpec == Init /\ [][CodecNext]_cvars

\* C31 -- Block codec round-trip: deserialize(serialize(B)) has the height,
\* timestamp, prev, difficulty, nonce and transaction bytes of B, and the
\* hash of B.
BlockRoundTrip ==
  (codec.kind = "block" /\ codec.done) =>
    /\ codec.out.ok
    /\ codec.out.block.height = codec.in.height
    /\ codec.out.block.ts = codec.in.ts
    /\ codec.out.block.prev = codec.in.prev
    /\ codec.out.block.difficulty = codec.in.difficulty
    /\ codec.out.block.nonce = codec.in.nonce
    /\ codec.out.block.txs = codec.in.txs
    /\ hashOf(codec.out.block) = hashOf(codec.in)

\* C32 -- Transaction codec round-trip: deserialize(serialize(tx)) serializes
\* to the bytes of tx and has the txid, the input references and the outputs
\* of tx, whatever of at most 72 bytes the signature slots carry.
TxRoundTrip ==
  (codec.kind = "tx" /\ codec.done) =>
    /\ codec.out.ok
    /\ serializeTx(codec.out.tx) = codec.bytes
    /\ idOf(codec.out.tx) = idOf(codec.in)
    /\ Len(codec.out.tx.inputs) = Len(codec.in.inputs)
    /\ \A i \in DOMAIN codec.in.inputs :
         /\ codec.out.tx.inputs[i].txid = codec.in.inputs[i].txid
         /\ codec.out.tx.inputs[i].index = codec.in.inputs[i].index
    /\ codec.out.tx.outputs = codec.in.outputs

\* C40 -- Difficulty fits the wire format: a block that carries a difficulty
\* the retarget rule gives comes back from serialize and deserialize with
\* that difficulty.
DifficultyFitsWire ==
  (codec.kind = "block" /\ codec.done /\ codec.in.difficulty \in ExpectedDifficulties) =>
    (codec.out.ok /\ codec.out.block.difficulty = codec.in.difficulty)

\* ------------------------------------------------ the shape of the block store
\* the stored blocks visited from b along next, at most n of them
RECURSIVE Walk(_, _)
Walk(b, n) ==
  IF b = NoBlock \/ n = 0 \/ b \notin DOMAIN next THEN <<>>
  ELSE <<b>> \o Walk(next[b], n - 1)

\* this.blocks.set(hash, orphans[hash]): the key of a stored block. A block
\* that was stitched by gap-fill or extended later is the value found under
\* the prev of its successor; the tip entered under its computed hash.
StoredKey(b) == IF next[b] # NoBlock THEN next[b].prev ELSE Hash(b)

\* C33: the store is one list. The walk along next from the stored genesis
\* visits every stored block once and ends at the tip, which has no next;
\* every stored block is kept under its own hash; the parent of every block
\* but genesis is stored, one lower; no block of a displaced branch remains.
ChainStoreShape ==
  LET walk == Walk(GENESIS_BLOCK, Cardinality(blocks) + 1)
  IN /\ GENESIS_BLOCK \in blocks
     /\ DOMAIN next = blocks
     /\ Len(walk) = Cardinality(blocks)
     /\ SeqToSet(walk) = blocks
     /\ walk[Len(walk)] = tip
     /\ next[tip] = NoBlock
     /\ \A b \in blocks : StoredKey(b) = Hash(b)
     /\ \A b \in blocks \ {GENESIS_BLOCK} :
          \E p \in blocks : /\ Hash(p) = b.prev
                            /\ b.height = p.height + 1
                            /\ next[p] = b
     /\ SeqToSet(ActiveChain) \cup {GENESIS_BLOCK} = blocks

\* a reorganisation was committed: a segment replaced a stored branch
ReorgCommitted ==
  /\ last.op = "onNewBlocks" /\ last.accepted /\ last.reorg
  /\ Cardinality(blocks) > 1

\* ======================================= the gap-fill against a long branch
\* blocks of the branch a peer announces
MaxGap == 13
\* announcements made to the node
MaxGapOffers == 2

GapInventory == {BranchBlock("x", h) : h \in 1..MaxGap}

\* the ancestors of b above genesis that the node nd does not store
UnknownAncestors(nd, b) ==
  {h \in 1..(b.height - 1) : ~StoredAt(nd, Hash(BranchBlock("x", h)))}

\* a peer that holds b announces it to node A, which is not connected to the
\* other node and has no blockinv task: onNewBlocks up to the getblock request
GapAnnounce(b) ==
  /\ ~net.connected
  /\ ingest["A"].at = "none"
  /\ wire["A"] = <<>> /\ wire["B"] = <<>>
  /\ Len(net.offered["A"]) < MaxGapOffers
  /\ \E S \in {OnBlockInvAt([node |-> nodes["A"], ing |-> ingest["A"], out |-> <<>>],
                            BlockInv(b))} :
        /\ ingest' = [ingest EXCEPT !["A"] = S.ing]
        /\ wire' = [wire EXCEPT !["B"] = @ \o S.out]
  /\ net' = [net EXCEPT !.offered["A"] = Append(@, b),
                        !.gap = [rounds |-> 0, of |-> b,
                                 unknown |-> Cardinality(UnknownAncestors(nodes["A"], b))]]
  /\ UNCHANGED <<nodes, vars, xvars, qvars, mvars>>

\* the answers of the peer to a request m: what getBlock responds from the
\* store of the holder, that response cut to its first block, the response
\* without its first block, and no block at all
Answers(m) ==
  LET full == GetBlockAt([node |-> Holder(net.gap.of), ing |-> IngestIdle, out |-> <<>>],
                         m).out[1].blocks
  IN {Blocks(full), Blocks(SubSeq(full, 1, 1)), Blocks(SubSeq(full, 2, Len(full))),
      Blocks(<<>>)}

\* the peer takes the request of node A and responds
GapServe ==
  /\ wire["B"] # <<>>
  /\ \E response \in Answers(Head(wire["B"])) :
        wire' = [wire EXCEPT !["B"] = Tail(@), !["A"] = Append(@, response)]
  /\ UNCHANGED <<nodes, ingest, net, vars, xvars, qvars, mvars>>

\* node A takes the response: onNewBlocks from the await on
GapOnBlocks ==
  /\ wire["A"] # <<>>
  /\ \E S \in {OnBlocksAt([node |-> nodes["A"], ing |-> ingest["A"], out |-> <<>>],
                          Head(wire["A"]))} :
        /\ nodes' = [nodes EXCEPT !["A"] = S.node]
        /\ ingest' = [ingest EXCEPT !["A"] = S.ing]
        /\ wire' = [wire EXCEPT !["A"] = Tail(@),
                                !["B"] = @ \o SelectSeq(S.out, LAMBDA m : m.type # "blockinv")]
        /\ net' = [net EXCEPT !.gap.rounds =
                     @ + Len(SelectSeq(S.out, LAMBDA m : m.type = "getbatch"))]
  /\ UNCHANGED <<vars, xvars, qvars, mvars>>

GapNext ==
  \/ \E b \in GapInventory : GapAnnounce(b)
  \/ GapServe
  \/ GapOnBlocks

GapSpec == Init /\ [][GapNext]_netvars

\* each block of the sequence names the hash of the block before it
Linked(orphans) ==
  \A i \in 1..(Len(orphans) - 1) : orphans[i + 1].prev = Hash(orphans[i])

LivePeers(ss, ps) == {ps[i] : i \in {j \in 1..Len(ps) : ss[ps[j]].ready = "open"}}

\* the disconnect recovery loop awaits the connect of a socket it has dialled
RecoveryAwaits(ss) ==
  \E s \in 1..Len(ss) : ss[s].by = "recovery" /\ ss[s].awaited /\ ss[s].ready = "connecting"

\* C35: on a server that is not shutting down, a step that closes a socket or
\* ends a connect of the recovery loop leaves the loop dialling unless 8 peers
\* are live or no address is known; and the loop dials no address that a live
\* peer has as its address or as its listenAddress.
PeerRecovery ==
  [][/\ (/\ ~stopping'
         /\ srvLog'.op \in {"close", "open"}
         /\ \/ srvLog'.op = "close"
            \/ socks[srvLog'.sock].by = "recovery")
          => \/ RecoveryAwaits(socks')
             \/ Cardinality(LivePeers(socks', peers')) >= PeerTarget
             \/ knownAddresses' = <<>>
     /\ \A s \in 1..Len(socks') :
          (s > Len(socks) /\ socks'[s].by = "recovery") =>
             \A p \in LivePeers(socks', peers') :
                /\ socks'[p].address # socks'[s].address
                /\ socks'[p].listenAddress # socks'[s].address]_svars

\* ------------------------------------------------------ the wallet's means
\* the outputs send may spend: locked to the account key and not claimed by
\* a pending transaction
Spendable ==
  {i \in 1..Len(uTxOuts) : /\ uTxOuts[i].output.publicKey = account
                           /\ UId(uTxOuts[i]) \notin pendingUTxOuts}

RECURSIVE SumOver(_)
SumOver(I) ==
  IF I = {} THEN 0
  ELSE LET i == CHOOSE j \in I : TRUE IN uTxOuts[i].output.amount + SumOver(I \ {i})

\* some selection of spendable outputs pays amount, a change output and the
\* minimum fee of the transaction with these inputs and two outputs
Coverable(amount) ==
  \E I \in SUBSET Spendable :
     /\ I # {}
     /\ SumOver(I) >= amount + (8 + Cardinality(I) * 108 + 2 * 73) * MIN_TX_FEES_EVERY_BYTE

\* blocks on top of genesis in a run of the wallet
MaxWalletHeight == 3

\* a payment of the output u in two parts to the account of the node
Split(u, small, large) ==
  [tx |-> [inputs |-> <<TxIn(u.txid, u.index, u.output.publicKey)>>,
           outputs |-> <<TxOut(small, account), TxOut(large, account)>>],
   fee |-> u.output.amount - small - large]

\* what a peer announces on the tip P: a block without transfers, mined by
\* either key, and blocks that pay an output of the other party to the account
WalletBlocks(P) ==
  {BlockOn(P, k, <<>>) : k \in Keys}
  \cup {BlockOn(P, "b", <<Split(u, small, 600)>>) :
          u \in {v \in Unspent(P) : v.output.publicKey = "b" /\ v.output.amount >= 1000},
          small \in {50, 120}}

WalletAmounts == {100, 300, 1000}

\* a block of a peer extends the tip
WalletFunded(B) ==
  /\ tip.height < MaxWalletHeight
  /\ OnNewBlocksSegment(<<B>>)

WalletNext ==
  \/ \E B \in WalletBlocks(tip) : WalletFunded(B)
  \/ \E amount \in WalletAmounts : Send("b", amount)

WalletSpec == Init /\ [][WalletNext]_vars

\* C36: a send that fails had no selection of spendable outputs that covers
\* the amount and the minimum fee; a failed send leaves the pool and the
\* outputs claimed by pending transactions as they were.
WalletSendFailure ==
  [][(last'.op = "send" /\ ~last'.accepted) =>
        /\ \A amount \in WalletAmounts :
              ~buildSend("b", amount).ok => ~Coverable(amount)
        /\ pool' = pool
        /\ pendingUTxOuts' = pendingUTxOuts]_vars

\* ----------------------------------------------------- value conservation
\* the subsidies of the blocks bs
RECURSIVE Subsidies(_)
Subsidies(bs) ==
  IF bs = <<>> THEN 0
  ELSE getCoinbaseRewardAtHeight(Head(bs).height) + Subsidies(Tail(bs))

\* C37: the amounts of the unspent outputs add up to at most the subsidies
\* of the blocks of the active chain.
ValueConserved ==
  SumUTxOuts(uTxOuts) <= Subsidies(ActiveChain)

\* C38 -- Miner/validator agreement: the candidate generateBlock builds on the
\* tip carries the difficulty the block loop expects of a child of that tip,
\* and a mined block whose parent is still the tip is accepted.
MinerValidatorAgree ==
  /\ \A gap \in Gaps :
        generate(chain, gap).difficulty = expectedDifficulty(chain, generate(chain, gap))
  /\ verdict.mined => verdict.accepted

\* a mined block was accepted on a parent at a retarget height, with a
\* difficulty other than that of the parent
MinedAtRetarget ==
  /\ verdict.mined /\ verdict.accepted
  /\ verdict.block.height = 11
  /\ verdict.block.difficulty # Parent.difficulty

\* ------------------------------------------------------------ quiescence
\* no blockinv, getblock or response to getblock is on a socket and no
\* blockinv task is queued or running
BlocksQuiet ==
  /\ \A n \in Nodes : \A i \in 1..Len(wire[n]) :
        wire[n][i].type \notin {"blockinv", "getblock", "getbatch", "blocks"}
  /\ \A n \in Nodes : ingest[n] = IngestIdle

\* C39 -- Convergence to quiescence: two nodes that are connected and start
\* no miner any more eventually and for good exchange no blockinv and no
\* getblock and hold the same tip, whatever branches they had when they were
\* connected.
Quiescence ==
  Calm ~> [](~Calm \/ (BlocksQuiet /\ nodes["A"].tip = nodes["B"].tip))

====
